---- MODULE Spec2Model ----
(***************************************************************************)
(* Model of the image_resize service: the thumbnail endpoint with its      *)
(* in-memory LRU cache (pages/api/thumbnail.ts) and the animated-GIF       *)
(* endpoint (pages/api/create-filtered-gif.ts).                            *)
(*                                                                         *)
(* Strings that the code inspects (query parameters, form fields, cache    *)
(* keys) are sequences of one-character strings, so that parseInt,         *)
(* toLowerCase, includes and template concatenation are computed.          *)
(***************************************************************************)
EXTENDS Integers, Sequences, FiniteSets, Bags, TLC

(***************************************************************************)
(* Bounds of the model.                                                    *)
(***************************************************************************)
MaxInFlight == 2
MaxRequests == 3
MaxTicks == 3
MaxGifRequests == 2
MaxImages == 2
MaxResizeRequests == 2

(***************************************************************************)
(* Values of JavaScript that the handlers test.                            *)
(***************************************************************************)
Undefined == [defined |-> FALSE, str |-> <<>>]
Str(s) == [defined |-> TRUE, str |-> s]
\* A query parameter given more than once is an array of strings; `str` is
\* then what String(value) gives, the items joined by commas.
Arr(s) == [defined |-> TRUE, str |-> s, array |-> TRUE]
\* typeof v === "string"
IsString(v) == v.defined /\ "array" \notin DOMAIN v
\* A JavaScript value is truthy unless it is undefined or the empty string.
Truthy(v) == v.defined /\ v.str # <<>>

NaN == [nan |-> TRUE, val |-> 0]
Num(n) == [nan |-> FALSE, val |-> n]

DigitChars == <<"0", "1", "2", "3", "4", "5", "6", "7", "8", "9">>
IsDigit(c) == \E i \in 1..10 : DigitChars[i] = c
DigitVal(c) == (CHOOSE i \in 1..10 : DigitChars[i] = c) - 1

RECURSIVE SkipSpaces(_)
SkipSpaces(s) ==
  IF s # <<>> /\ Head(s) = " " THEN SkipSpaces(Tail(s)) ELSE s

RECURSIVE DigitPrefix(_)
DigitPrefix(s) ==
  IF s # <<>> /\ IsDigit(Head(s)) THEN <<Head(s)>> \o DigitPrefix(Tail(s)) ELSE <<>>

RECURSIVE DigitsValue(_, _)
DigitsValue(s, acc) ==
  IF s = <<>> THEN acc ELSE DigitsValue(Tail(s), acc * 10 + DigitVal(Head(s)))

\* parseInt(v, 10): leading white space is skipped, an optional sign is read,
\* then the longest run of decimal digits; what follows the digits is ignored;
\* no digit at all gives NaN. parseInt(undefined) parses "undefined": NaN.
ParseInt(v) ==
  IF ~v.defined THEN NaN
  ELSE LET t == SkipSpaces(v.str)
           neg == t # <<>> /\ Head(t) = "-"
           u == IF t # <<>> /\ Head(t) \in {"-", "+"} THEN Tail(t) ELSE t
           d == DigitPrefix(u)
       IN IF d = <<>> THEN NaN
          ELSE Num(IF neg THEN 0 - DigitsValue(d, 0) ELSE DigitsValue(d, 0))

\* parseInt(...) || dflt : NaN and 0 are falsy.
OrDefault(p, dflt) == IF p.nan \/ p.val = 0 THEN dflt ELSE p.val

RECURSIVE NatToStr(_)
NatToStr(n) ==
  IF n < 10 THEN <<DigitChars[n + 1]>>
  ELSE NatToStr(n \div 10) \o <<DigitChars[(n % 10) + 1]>>

\* Template interpolation of a number: `${n}`.
NumToStr(n) == IF n < 0 THEN <<"-">> \o NatToStr(0 - n) ELSE NatToStr(n)

LowerOf(c) ==
  CASE c = "G" -> "g" [] c = "I" -> "i" [] c = "F" -> "f" [] c = "J" -> "j"
    [] c = "P" -> "p" [] c = "E" -> "e" [] c = "N" -> "n" [] c = "W" -> "w"
    [] c = "B" -> "b" [] c = "A" -> "a" [] c = "M" -> "m"
    [] OTHER -> c

ToLowerCase(s) == [i \in 1..Len(s) |-> LowerOf(s[i])]

\* String.prototype.includes
Includes(s, sub) ==
  \E i \in 1..(Len(s) - Len(sub) + 1) : SubSeq(s, i, i + Len(sub) - 1) = sub

(***************************************************************************)
(* Thumbnail cache configuration (thumbnail.ts lines 50-59).               *)
(***************************************************************************)
CACHE_MAX_SIZE_MB == 300
CACHE_MAX_SIZE_BYTES == CACHE_MAX_SIZE_MB * 1024 * 1024
CACHE_TTL_MS == 24 * 60 * 60 * 1000
\* Mutant of UpdateAgeOnGet: a hit leaves the entry's age as it was.
UpdateAgeOnGetOff == FALSE

UpdateAgeOnGet == TRUE

DEFAULT_WIDTH == 350
DEFAULT_HEIGHT == 350
DEFAULT_QUALITY == 80

MiB == 1024 * 1024
\* Lengths a transcoded thumbnail may have: one of which two fill the budget
\* exactly and a third does not fit, and one over the budget.
BufferLengths == {150 * MiB, CACHE_MAX_SIZE_BYTES + 1}
\* The buffers a transcode may produce: the bytes depend on what the source
\* url served at the time of the fetch, so two of the same length may differ.
ResizedBuffers ==
  {[length |-> n, bytes |-> b] : n \in BufferLengths, b \in {"x", "y"}}
     \ {[length |-> CACHE_MAX_SIZE_BYTES + 1, bytes |-> "y"]}
\* The clock advances in steps of half the TTL.
TickMs == CACHE_TTL_MS \div 2

VARIABLES
  now,             \* Date.now() / performance.now(), in ms
  thumbnailCache,  \* the LRUCache: entries from least to most recently used
  calculatedSize,  \* LRUCache.calculatedSize
  lastDispose,     \* the dispose callback's last call in the latest step, if any
  cacheStats,      \* hits, misses (lastLogTime only paces the console log)
  treq,            \* the thumbnail requests suspended at an await: a bag
  response,        \* the response the latest step sent, if any
  missKeys,        \* the cache keys that were answered 200 with X-Cache: MISS
  gifStarted,      \* number of /create-filtered-gif requests received
  greq,            \* the /create-filtered-gif request being handled
  tmpDir,          \* the upload temp files on disk
  probe,           \* a call of a pure function examined on its own: arguments, result
  rreq             \* the /resize request being handled

gifVars == <<gifStarted, greq, tmpDir>>
vars == <<now, thumbnailCache, calculatedSize, lastDispose, cacheStats, treq, response,
          missKeys, gifStarted, greq, tmpDir, probe, rreq>>

(***************************************************************************)
(* The LRUCache instance as configured: maxSize, sizeCalculation,          *)
(* ttl, updateAgeOnGet, dispose.                                           *)
(***************************************************************************)
RECURSIVE SumSizes(_)
SumSizes(c) == IF c = <<>> THEN 0 ELSE Head(c).size + SumSizes(Tail(c))

KeysOf(c) == {c[i].key : i \in 1..Len(c)}
IndexOf(c, k) == CHOOSE i \in 1..Len(c) : c[i].key = k
RemoveAt(c, i) == SubSeq(c, 1, i - 1) \o SubSeq(c, i + 1, Len(c))

\* sizeCalculation: (entry) => entry.buffer.length
SizeCalculation(value) == value.buffer.length

\* Mutants of IsStale: an entry never expires; an entry expires at exactly ttl.
IsStaleNever(e, t) == FALSE
IsStaleAtTtl(e, t) == t - e.start >= CACHE_TTL_MS

\* An entry is stale when more than ttl has passed since its start.
IsStale(e, t) == t - e.start > CACHE_TTL_MS

NoDispose == [key |-> <<>>, reason |-> "none"]

\* Mutant of LruGet: a stale entry is reported missing and left in the cache.
LruGetLeavesStale(c, size, k, t) ==
  IF k \notin KeysOf(c)
  THEN [found |-> FALSE, cache |-> c, size |-> size, dispose |-> NoDispose]
  ELSE LET i == IndexOf(c, k)
           e == c[i]
       IN IF IsStale(e, t)
          THEN [found |-> FALSE, cache |-> c, size |-> size, dispose |-> NoDispose]
          ELSE [found |-> TRUE, value |-> e.value,
                cache |-> Append(RemoveAt(c, i),
                                 IF UpdateAgeOnGet THEN [e EXCEPT !.start = t] ELSE e),
                size |-> size, dispose |-> NoDispose]

\* Mutant of LruGet: a hit returns the value of the least recently used entry.
LruGetOther(c, size, k, t) ==
  IF k \notin KeysOf(c)
  THEN [found |-> FALSE, cache |-> c, size |-> size, dispose |-> NoDispose]
  ELSE LET i == IndexOf(c, k)
           e == c[i]
       IN IF IsStale(e, t)
          THEN [found |-> FALSE, cache |-> RemoveAt(c, i), size |-> size - e.size,
                dispose |-> [key |-> k, reason |-> "expire"]]
          ELSE [found |-> TRUE, value |-> c[1].value,
                cache |-> Append(RemoveAt(c, i),
                                 IF UpdateAgeOnGet THEN [e EXCEPT !.start = t] ELSE e),
                size |-> size, dispose |-> NoDispose]

\* Mutant of LruGet: a hit also purges the other entries that are stale.
LruGetPurgesStale(c, size, k, t) ==
  IF k \notin KeysOf(c)
  THEN [found |-> FALSE, cache |-> c, size |-> size, dispose |-> NoDispose]
  ELSE LET i == IndexOf(c, k)
           e == c[i]
           kept == SelectSeq(RemoveAt(c, i), LAMBDA o : ~IsStale(o, t))
       IN IF IsStale(e, t)
          THEN [found |-> FALSE, cache |-> RemoveAt(c, i), size |-> size - e.size,
                dispose |-> [key |-> k, reason |-> "expire"]]
          ELSE [found |-> TRUE, value |-> e.value,
                cache |-> Append(kept, IF UpdateAgeOnGet THEN [e EXCEPT !.start = t] ELSE e),
                size |-> SumSizes(kept) + e.size, dispose |-> NoDispose]

\* thumbnailCache.get(k): [value, found, cache, size, dispose]
LruGet(c, size, k, t) ==
  IF k \notin KeysOf(c)
  THEN [found |-> FALSE, cache |-> c, size |-> size, dispose |-> NoDispose]
  ELSE LET i == IndexOf(c, k)
           e == c[i]
       IN IF IsStale(e, t)
          THEN [found |-> FALSE, cache |-> RemoveAt(c, i), size |-> size - e.size,
                dispose |-> [key |-> k, reason |-> "expire"]]
          ELSE [found |-> TRUE, value |-> e.value,
                cache |-> Append(RemoveAt(c, i),
                                 IF UpdateAgeOnGet THEN [e EXCEPT !.start = t] ELSE e),
                size |-> size, dispose |-> NoDispose]

\* Mutant of EvictFor: eviction starts at the most recently used end.
RECURSIVE EvictForNewest(_, _, _)
EvictForNewest(c, size, room) ==
  IF size > room /\ c # <<>>
  THEN EvictForNewest(SubSeq(c, 1, Len(c) - 1), size - c[Len(c)].size, room)
  ELSE [cache |-> c, size |-> size]

\* Eviction from the least recently used end until `room` bytes are free.
RECURSIVE EvictFor(_, _, _)
EvictFor(c, size, room) ==
  IF size > room /\ c # <<>>
  THEN EvictFor(Tail(c), size - Head(c).size, room)
  ELSE [cache |-> c, size |-> size]

\* Mutant of LruSet: the entry is appended and nothing is evicted.
LruSetNoEvict(c, size, k, v, t) ==
  [cache |-> Append(IF k \in KeysOf(c) THEN RemoveAt(c, IndexOf(c, k)) ELSE c,
                    [key |-> k, value |-> v, size |-> SizeCalculation(v), start |-> t]),
   size |-> size + SizeCalculation(v), dispose |-> NoDispose]

\* Mutant of LruSet: replacing an entry does not take the old size off the total.
LruSetDoubleCount(c, size, k, v, t) ==
  LET sz == SizeCalculation(v)
      present == k \in KeysOf(c)
      rest == IF present THEN RemoveAt(c, IndexOf(c, k)) ELSE c
  IN IF sz > CACHE_MAX_SIZE_BYTES
     THEN [cache |-> rest, size |-> size,
           dispose |-> IF present THEN [key |-> k, reason |-> "delete"] ELSE NoDispose]
     ELSE LET ev == EvictFor(rest, size, CACHE_MAX_SIZE_BYTES - sz)
          IN [cache |-> Append(ev.cache, [key |-> k, value |-> v, size |-> sz, start |-> t]),
              size |-> ev.size + sz,
              dispose |-> IF Len(ev.cache) < Len(rest)
                          THEN [key |-> rest[Len(rest) - Len(ev.cache)].key, reason |-> "evict"]
                          ELSE IF present THEN [key |-> k, reason |-> "set"] ELSE NoDispose]

\* Mutant of LruSet: a payload over the budget leaves the cache as it was.
LruSetKeepsOld(c, size, k, v, t) ==
  LET sz == SizeCalculation(v)
      present == k \in KeysOf(c)
      rest == IF present THEN RemoveAt(c, IndexOf(c, k)) ELSE c
      restSize == IF present THEN size - c[IndexOf(c, k)].size ELSE size
  IN IF sz > CACHE_MAX_SIZE_BYTES
     THEN [cache |-> c, size |-> size, dispose |-> NoDispose]
     ELSE LET ev == EvictFor(rest, restSize, CACHE_MAX_SIZE_BYTES - sz)
          IN [cache |-> Append(ev.cache, [key |-> k, value |-> v, size |-> sz, start |-> t]),
              size |-> ev.size + sz,
              dispose |-> IF Len(ev.cache) < Len(rest)
                          THEN [key |-> rest[Len(rest) - Len(ev.cache)].key, reason |-> "evict"]
                          ELSE IF present THEN [key |-> k, reason |-> "set"] ELSE NoDispose]

\* thumbnailCache.set(k, v): [cache, size, dispose]
LruSet(c, size, k, v, t) ==
  LET sz == SizeCalculation(v)
      present == k \in KeysOf(c)
      rest == IF present THEN RemoveAt(c, IndexOf(c, k)) ELSE c
      restSize == IF present THEN size - c[IndexOf(c, k)].size ELSE size
  IN IF sz > CACHE_MAX_SIZE_BYTES
     THEN \* larger than maxEntrySize (= maxSize): not stored, an old entry is deleted
          [cache |-> rest, size |-> restSize,
           dispose |-> IF present THEN [key |-> k, reason |-> "delete"] ELSE NoDispose]
     ELSE LET ev == EvictFor(rest, restSize, CACHE_MAX_SIZE_BYTES - sz)
          IN [cache |-> Append(ev.cache, [key |-> k, value |-> v, size |-> sz, start |-> t]),
              size |-> ev.size + sz,
              dispose |-> IF Len(ev.cache) < Len(rest)
                          THEN [key |-> rest[Len(rest) - Len(ev.cache)].key, reason |-> "evict"]
                          ELSE IF present THEN [key |-> k, reason |-> "set"] ELSE NoDispose]

(***************************************************************************)
(* GET /api/thumbnail (thumbnail.ts, handler).                             *)
(***************************************************************************)
\* Mutant of GetCacheKey: the fields are concatenated without separators.
GetCacheKeyUnseparated(url, width, height, format, quality) ==
  url \o NumToStr(width) \o NumToStr(height) \o format \o NumToStr(quality)

\* getCacheKey: `${url}|${width}x${height}|${format}|q${quality}`
GetCacheKey(url, width, height, format, quality) ==
  url \o <<"|">> \o NumToStr(width) \o <<"x">> \o NumToStr(height) \o <<"|">>
      \o format \o <<"|", "q">> \o NumToStr(quality)

DetectFormatFromUrl(imageUrl) ==
  LET lowerUrl == ToLowerCase(imageUrl)
  IN IF Includes(lowerUrl, <<".", "g", "i", "f">>) THEN <<"g", "i", "f">>
     ELSE IF Includes(lowerUrl, <<".", "p", "n", "g">>) THEN <<"p", "n", "g">>
     ELSE IF Includes(lowerUrl, <<".", "w", "e", "b", "p">>) THEN <<"w", "e", "b", "p">>
     ELSE <<"j", "p", "e", "g">>

ValidFormats ==
  {<<"j", "p", "e", "g">>, <<"j", "p", "g">>, <<"p", "n", "g">>,
   <<"w", "e", "b", "p">>, <<"g", "i", "f">>}

\* Mutant of NormalizeFormat: jpg is kept as it is.
NormalizeFormatLowerOnly(outputFormat) == ToLowerCase(outputFormat)

NormalizeFormat(outputFormat) ==
  IF ToLowerCase(outputFormat) = <<"j", "p", "g">> THEN <<"j", "p", "e", "g">>
  ELSE ToLowerCase(outputFormat)

ContentTypeOf(normalizedFormat) ==
  CASE normalizedFormat = <<"j", "p", "e", "g">> -> "image/jpeg"
    [] normalizedFormat = <<"p", "n", "g">> -> "image/png"
    [] normalizedFormat = <<"w", "e", "b", "p">> -> "image/webp"
    [] normalizedFormat = <<"g", "i", "f">> -> "image/gif"
    [] OTHER -> "image/jpeg"

\* The query strings the model sends. Three cache keys arise from them:
\* a.gif|350x350|gif|q80, a.gif|350x350|jpeg|q80 and b|9x350|jpeg|q80.
UrlA == <<"a", ".", "g", "i", "f">>
UrlB == <<"b">>
Query(m, u, w, h, f, q) ==
  [method |-> m, url |-> u, width |-> w, height |-> h, format |-> f, quality |-> q]
Queries ==
  { Query("GET", Str(UrlA), Undefined, Undefined, Undefined, Undefined),
    Query("GET", Str(UrlA), Str(<<"3", "5", "0">>), Undefined, Str(<<"J", "P", "G">>), Undefined),
    Query("GET", Str(UrlB), Str(<<"9">>), Undefined, Undefined, Undefined),
    Query("HEAD", Str(UrlB), Str(<<"9">>), Str(<<"0">>), Undefined, Str(<<"8", "0">>)),
    Query("POST", Str(UrlA), Undefined, Undefined, Undefined, Undefined),
    Query("GET", Undefined, Undefined, Undefined, Undefined, Undefined),
    Query("GET", Str(UrlB), Undefined, Undefined, Str(<<"b", "m", "p">>), Undefined) }

\* Requests for one url in several spellings: the format left out, in lower
\* and in upper case, as jpg and as jpeg; width, height and quality left out or
\* given as the defaults; one request for another width; one HEAD request.
SpellingFormats ==
  { Undefined, Str(<<"g", "i", "f">>), Str(<<"G", "I", "F">>), Str(<<"j", "p", "g">>),
    Str(<<"j", "p", "e", "g">>), Str(<<"J", "P", "G">>) }
SpellingQueries ==
  { Query("GET", Str(UrlA), Undefined, Undefined, f, Undefined) : f \in SpellingFormats }
    \cup { Query("GET", Str(UrlA), Str(<<"3", "5", "0">>), Str(<<"3", "5", "0">>), f,
                  Str(<<"8", "0">>)) : f \in SpellingFormats }
    \cup { Query("GET", Str(UrlA), Str(<<"9">>), Undefined, Undefined, Undefined),
           Query("HEAD", Str(UrlA), Undefined, Undefined, Undefined, Undefined) }
\* The requests for the url b, the rejected ones, and one whose format is
\* given twice.
AnswerQueries ==
  {q \in Queries : q.url # Str(UrlA) \/ q.method = "POST"}
    \cup { Query("GET", Str(UrlB), Undefined, Undefined,
                 Arr(<<"p", "n", "g", ",", "g", "i", "f">>), Undefined) }
\* The spellings sent first.
SpellingFirsts ==
  { Query("GET", Str(UrlA), Undefined, Undefined, Undefined, Undefined),
    Query("HEAD", Str(UrlA), Undefined, Undefined, Undefined, Undefined),
    Query("GET", Str(UrlA), Undefined, Undefined, Str(<<"j", "p", "e", "g">>), Undefined),
    Query("GET", Str(UrlA), Str(<<"3", "5", "0">>), Str(<<"3", "5", "0">>),
          Str(<<"J", "P", "G">>), Str(<<"8", "0">>)),
    Query("GET", Str(UrlA), Str(<<"3", "5", "0">>), Str(<<"3", "5", "0">>),
          Str(<<"G", "I", "F">>), Str(<<"8", "0">>)) }

NoBody == [length |-> 0, bytes |-> ""]
NoResp == [status |-> 0, xCache |-> "", contentType |-> "", contentLength |-> 0,
           body |-> NoBody, error |-> "", cacheKey |-> <<>>, ageSeconds |-> 0]
ErrorResp(code, err) == [NoResp EXCEPT !.status = code, !.error = err]
ImageResp(buffer, contentType, xc, key, age) ==
  [status |-> 200, xCache |-> xc, contentType |-> contentType,
   contentLength |-> buffer.length, body |-> buffer, error |-> "", cacheKey |-> key,
   ageSeconds |-> age]

\* The requests in flight are a bag: which of two equal requests is which
\* makes no difference to the handler. At most MaxInFlight are in flight.
\* Mutant of Suspend: a request equal to one in flight joins it.
SuspendCoalesced(bag, req) == IF BagIn(req, bag) THEN bag ELSE bag (+) SetToBag({req})

Suspend(bag, req) == bag (+) SetToBag({req})
Resume(bag, req) == bag (-) SetToBag({req})

\* Mutant of OutputFormat: a known extension in the url wins over the format.
OutputFormatDetectFirst(format, url) ==
  IF DetectFormatFromUrl(url) # <<"j", "p", "e", "g">> \/ ~Truthy(format)
  THEN DetectFormatFromUrl(url)
  ELSE format.str

\* (format as string) || detectFormatFromUrl(url)
OutputFormat(format, url) ==
  IF Truthy(format) THEN format.str ELSE DetectFormatFromUrl(url)

\* Mutants of MethodAllowed: only GET is let through; every method is.
MethodAllowedGetOnly(method) == method = "GET"

MethodAllowedAny(method) == TRUE

\* req.method is GET or HEAD
MethodAllowed(method) == method \in {"GET", "HEAD"}

\* The handler from its entry to the cache lookup: the response that rejects
\* the request, or the cache key and the normalized format. A format given
\* more than once is an array: outputFormat.toLowerCase is then not a function
\* and the TypeError, thrown outside the try block, leaves the handler; the
\* framework answers 500.
Validate(q) ==
  IF ~MethodAllowed(q.method)
  THEN [ok |-> FALSE, resp |-> ErrorResp(405, "Method not allowed")]
  ELSE IF ~Truthy(q.url) \/ ~IsString(q.url)
  THEN [ok |-> FALSE, resp |-> ErrorResp(400, "Missing required 'url' parameter")]
  ELSE IF Truthy(q.format) /\ ~IsString(q.format)
  THEN [ok |-> FALSE, resp |-> ErrorResp(500, "Internal Server Error")]
  ELSE LET url == q.url.str
           targetWidth == OrDefault(ParseInt(q.width), DEFAULT_WIDTH)
           targetHeight == OrDefault(ParseInt(q.height), DEFAULT_HEIGHT)
           outputQuality == OrDefault(ParseInt(q.quality), DEFAULT_QUALITY)
           outputFormat == OutputFormat(q.format, url)
       IN IF ToLowerCase(outputFormat) \notin ValidFormats
          THEN [ok |-> FALSE, resp |-> ErrorResp(400, "Invalid format")]
          ELSE [ok |-> TRUE,
                targetWidth |-> targetWidth, targetHeight |-> targetHeight,
                outputQuality |-> outputQuality,
                normalizedFormat |-> NormalizeFormat(outputFormat),
                cacheKey |-> GetCacheKey(url, targetWidth, targetHeight,
                                         NormalizeFormat(outputFormat), outputQuality)]

Validated == [q \in Queries \cup SpellingQueries \cup AnswerQueries |-> Validate(q)]

\* Mutant of CountHit: a hit is counted as a miss.
CountHitAsMiss(stats) == [stats EXCEPT !.misses = @ + 1]

\* cacheStats.hits++
CountHit(stats) == [stats EXCEPT !.hits = @ + 1]

\* cacheStats.misses++
CountMiss(stats) == [stats EXCEPT !.misses = @ + 1]

\* The handler from its entry to its first await (the fetch), or to its
\* response when the request is rejected or served from the cache.
ThumbReceive(q) ==
  /\ BagCardinality(treq) < MaxInFlight
  /\ UNCHANGED <<now, gifVars, probe, rreq>>
  /\ LET v == Validated[q]
     IN IF ~v.ok
        THEN /\ response' = v.resp
             /\ lastDispose' = NoDispose
             /\ UNCHANGED <<treq, thumbnailCache, calculatedSize, cacheStats, missKeys>>
        ELSE LET got == LruGet(thumbnailCache, calculatedSize, v.cacheKey, now)
             IN /\ cacheStats.hits + cacheStats.misses < MaxRequests
                /\ thumbnailCache' = got.cache
                /\ calculatedSize' = got.size
                /\ lastDispose' = got.dispose
                /\ UNCHANGED missKeys
                /\ IF got.found
                   THEN /\ cacheStats' = CountHit(cacheStats)
                        /\ treq' = treq
                        /\ response' = ImageResp(got.value.buffer,
                                          got.value.contentType, "HIT", v.cacheKey,
                                          (now - got.value.createdAt) \div 1000)
                   ELSE /\ cacheStats' = CountMiss(cacheStats)
                        /\ treq' = Suspend(treq,
                                  [pc |-> "fetch", cacheKey |-> v.cacheKey,
                                   normalizedFormat |-> v.normalizedFormat])
                        /\ response' = NoResp

FetchOutcomes == {"ok", "notOk", "rejected"}

\* Mutant of ThumbFetchDone: a fetch that failed is started again.
ThumbFetchDoneRetries(req, outcome) ==
  /\ req.pc = "fetch"
  /\ IF outcome = "ok"
     THEN treq' = Suspend(Resume(treq, req), [req EXCEPT !.pc = "resize"])
     ELSE treq' = treq
  /\ response' = NoResp
  /\ lastDispose' = NoDispose
  /\ UNCHANGED <<now, thumbnailCache, calculatedSize, cacheStats, missKeys, gifVars, probe, rreq>>

\* await fetch(url) and await response.arrayBuffer() settle; a fetch that
\* fails or is not ok is answered 500 by the catch block.
ThumbFetchDone(req, outcome) ==
  /\ req.pc = "fetch"
  /\ IF outcome = "ok"
     THEN /\ treq' = Suspend(Resume(treq, req), [req EXCEPT !.pc = "resize"])
          /\ response' = NoResp
     ELSE /\ treq' = Resume(treq, req)
          /\ response' = ErrorResp(500, "Failed to process image")
  /\ lastDispose' = NoDispose
  /\ UNCHANGED <<now, thumbnailCache, calculatedSize, cacheStats, missKeys, gifVars, probe, rreq>>

\* Mutant of ThumbResizeFailed: a failed transcode drops the entry of its key.
ThumbResizeFailedPurges(req) ==
  /\ req.pc = "resize"
  /\ treq' = Resume(treq, req)
  /\ response' = ErrorResp(500, "Failed to process image")
  /\ lastDispose' = NoDispose
  /\ thumbnailCache' = SelectSeq(thumbnailCache, LAMBDA e : e.key # req.cacheKey)
  /\ calculatedSize' = SumSizes(thumbnailCache')
  /\ UNCHANGED <<now, cacheStats, missKeys, gifVars, probe, rreq>>

\* await pipeline.toBuffer() rejects: the catch block answers 500.
ThumbResizeFailed(req) ==
  /\ req.pc = "resize"
  /\ treq' = Resume(treq, req)
  /\ response' = ErrorResp(500, "Failed to process image")
  /\ lastDispose' = NoDispose
  /\ UNCHANGED <<now, thumbnailCache, calculatedSize, cacheStats, missKeys, gifVars, probe, rreq>>

\* Mutant of ThumbResizeDone: the entry is stored and the response sent
\* wherever the request is waiting, also before its fetch has settled.
ThumbResizeDoneEarly(req, resizedBuffer) ==
  /\ LET contentType == ContentTypeOf(req.normalizedFormat)
         cacheEntry == [buffer |-> resizedBuffer, contentType |-> contentType,
                        createdAt |-> now]
         put == LruSet(thumbnailCache, calculatedSize, req.cacheKey, cacheEntry, now)
     IN /\ thumbnailCache' = put.cache
        /\ calculatedSize' = put.size
        /\ lastDispose' = put.dispose
        /\ response' = ImageResp(resizedBuffer, contentType, "MISS", req.cacheKey, 0)
        /\ missKeys' = missKeys \cup {req.cacheKey}
  /\ treq' = Resume(treq, req)
  /\ UNCHANGED <<now, cacheStats, gifVars, probe, rreq>>

\* await pipeline.toBuffer() resolves: the entry is stored and the response sent.
ThumbResizeDone(req, resizedBuffer) ==
  /\ req.pc = "resize"
  /\ LET contentType == ContentTypeOf(req.normalizedFormat)
         cacheEntry == [buffer |-> resizedBuffer, contentType |-> contentType,
                        createdAt |-> now]
         put == LruSet(thumbnailCache, calculatedSize, req.cacheKey, cacheEntry, now)
     IN /\ thumbnailCache' = put.cache
        /\ calculatedSize' = put.size
        /\ lastDispose' = put.dispose
        /\ response' = ImageResp(resizedBuffer, contentType, "MISS", req.cacheKey, 0)
        /\ missKeys' = missKeys \cup {req.cacheKey}
  /\ treq' = Resume(treq, req)
  /\ UNCHANGED <<now, cacheStats, gifVars, probe, rreq>>

\* Time passes.
Tick ==
  /\ now < MaxTicks * TickMs
  /\ now' = now + TickMs
  /\ response' = NoResp
  /\ lastDispose' = NoDispose
  /\ UNCHANGED <<thumbnailCache, calculatedSize, cacheStats, treq, missKeys, gifVars, probe, rreq>>

(***************************************************************************)
(* POST /api/create-filtered-gif (create-filtered-gif.ts).                 *)
(***************************************************************************)
MAX_IMAGE_SIZE_MB == 10
MAX_IMAGE_SIZE_BYTES == MAX_IMAGE_SIZE_MB * 1024 * 1024
MAX_TOTAL_FILES == 20
DEFAULT_FRAME_DELAY_MS == 500
MIN_FRAME_DELAY_MS == 10
MAX_FRAME_DELAY_MS == 10000
MIN_DELAY_MS == 200
TOLERANCE_PERCENT == 10

\* The uploaded files the model sends. kind: "image" decodes; "corrupt" is
\* no image container (sharp's metadata() rejects); "noDims" has metadata
\* without width or height; "truncated" has a readable header and pixel data
\* that does not decode (toBuffer() rejects).
File(kind, size, w, h) == [kind |-> kind, size |-> size, width |-> w, height |-> h]
SmallSize == 500 * 1024
FileChoices ==
  { File("image", SmallSize, 100, 100), File("image", SmallSize, 110, 100),
    File("image", SmallSize, 111, 100), File("image", SmallSize, 110, 110),
    File("image", SmallSize, 100, 111),
    File("image", MAX_IMAGE_SIZE_BYTES + 1, 100, 100),
    File("corrupt", SmallSize, 0, 0), File("noDims", SmallSize, 0, 0),
    File("truncated", SmallSize, 100, 100) }

FileLists == UNION {[1..n -> FileChoices] : n \in 0..MaxImages}
FieldNames == {"images", "images[]", "photos"}
FrameDelayFields ==
  { Undefined, Str(<<>>), Str(<<"5">>), Str(<<"1", "0">>), Str(<<"2", "5", "0">>),
    Str(<<"1", "0", "0", "0", "0">>), Str(<<"1", "0", "0", "0", "1">>),
    Str(<<"1", "0", ".", "5">>), Str(<<"a", "b", "c">>) }
OtherMethods == {"GET", "PUT"}

\* Error messages are sequences of words, the interpolated values kept beside
\* them; message.includes(keyword) is the occurrence of the keyword's words.
Message(text, index, size, dims, minDims) ==
  [text |-> text, index |-> index, size |-> size, dims |-> dims, minDims |-> minDims]
NoMessage == Message(<<>>, 0, 0, <<0, 0>>, <<0, 0>>)
PlainMessage(text) == Message(text, 0, 0, <<0, 0>>, <<0, 0>>)

\* formidable's error for a file over maxFileSize
ErrMaxFileSize(size) ==
  Message(<<"options.maxFileSize", "(<max>", "bytes)", "exceeded,", "received",
            "<size>", "bytes", "of", "file", "data">>, 0, size, <<0, 0>>, <<0, 0>>)
\* formidable's error for the file beyond maxFiles
ErrMaxFiles ==
  PlainMessage(<<"options.maxFiles", "(<max>)", "exceeded">>)
ErrNoImages ==
  PlainMessage(<<"No", "images", "provided.", "Use", "'images'", "or", "'images[]'", "field.">>)
ErrFrameDelay ==
  PlainMessage(<<"frameDelay", "must", "be", "between", "<min>", "and", "<max>",
                 "milliseconds">>)
ErrExceeds(index, size) ==
  Message(<<"Image", "<index>", "exceeds", "<limit>", "MB", "limit:", "<size>", "MB">>,
          index, size, <<0, 0>>, <<0, 0>>)
ErrUnableToReadDimensions(index) ==
  Message(<<"Image", "<index>:", "Unable", "to", "read", "dimensions">>,
          index, 0, <<0, 0>>, <<0, 0>>)
ErrDimensionsDiffer(index, dims, minDims) ==
  Message(<<"Image", "<index>", "dimensions", "(<w>x<h>)", "differ", "from", "minimum",
            "(<minW>x<minH>)", "by", "more", "than", "10%.", "Width", "difference:",
            "<pct>%,", "Height", "difference:", "<pct>%.", "All", "images", "must",
            "have", "dimensions", "within", "10%", "of", "each", "other.">>,
          index, 0, dims, minDims)
\* sharp's errors
ErrUnsupportedImage ==
  PlainMessage(<<"Input", "buffer", "contains", "unsupported", "image", "format">>)
ErrPixelDecode ==
  PlainMessage(<<"VipsJpeg:", "Premature", "end", "of", "input", "file">>)
ErrInvalidHeader ==
  PlainMessage(<<"GIF", "encoding", "failed", "-", "invalid", "header">>)
ErrBytesTooShort ==
  PlainMessage(<<"GIF", "encoding", "failed", "-", "bytes", "too", "short">>)

\* The catch block's status code, from the message text.
StatusCodeOf(message) ==
  IF \/ Includes(message.text, <<"exceeds">>)
     \/ Includes(message.text, <<"dimensions">>)
     \/ Includes(message.text, <<"frameDelay">>)
     \/ Includes(message.text, <<"No", "images">>)
  THEN 400 ELSE 500

NoGifResp == [status |-> 0, contentType |-> "", contentLength |-> 0, message |-> NoMessage]
GifErrorResp(message) ==
  [status |-> StatusCodeOf(message), contentType |-> "application/json",
   contentLength |-> 0, message |-> message]

IdleGif ==
  [pc |-> "idle", method |-> "", upload |-> [field |-> "", files |-> <<>>, frameDelay |-> Undefined],
   tempFiles |-> <<>>, frameDelay |-> 0, imageDimensions |-> <<>>,
   minWidth |-> 0, minHeight |-> 0, metadataReads |-> 0, processedFrames |-> <<>>,
   encoder |-> <<0, 0>>, written |-> <<>>, thrownAt |-> "", resp |-> NoGifResp]

\* The temp file formidable writes for file i of request n.
FilePath(n, i) == <<n, i>>
PathsOf(tempFiles) == {tempFiles[i].filepath : i \in 1..Len(tempFiles)}

\* The cleanup loops: every temp file of the request that exists is unlinked.
CleanUp(dir, tempFiles) == dir \ PathsOf(tempFiles)

\* Mutant of Catch: the catch block returns without a response.
CatchSilent(g, site, message) ==
  /\ tmpDir' = CleanUp(tmpDir, g.tempFiles)
  /\ greq' = [g EXCEPT !.pc = "done", !.thrownAt = site]

\* The catch block: cleanup of tempFiles, status code, JSON response.
Catch(g, site, message) ==
  /\ tmpDir' = CleanUp(tmpDir, g.tempFiles)
  /\ greq' = [g EXCEPT !.pc = "done", !.thrownAt = site, !.resp = GifErrorResp(message)]

Min(S) == CHOOSE x \in S : \A y \in S : x <= y
First(S) == Min(S)

\* Mutant of FormidableError: the number of files is not limited.
FormidableErrorAnyCount(files) ==
  LET tooBig == {i \in 1..Len(files) : files[i].size > MAX_IMAGE_SIZE_BYTES}
  IN IF tooBig = {} THEN NoMessage ELSE ErrMaxFileSize(files[First(tooBig)].size)

\* The error formidable passes to the callback of form.parse (NoMessage when
\* it passes none), under the options maxFileSize and maxFiles. The parts of
\* the form are taken in their order: a file over maxFileSize stops the
\* parsing where it ends, the file after the maxFiles-th where it begins.
\* (maxTotalFileSize is maxFiles * maxFileSize and is not reached before one
\* of these two.)
FormidableError(files) ==
  LET tooBig == {i \in 1..Len(files) : files[i].size > MAX_IMAGE_SIZE_BYTES}
      tooMany == IF Len(files) > MAX_TOTAL_FILES THEN {MAX_TOTAL_FILES + 1} ELSE {}
      stops == tooBig \cup tooMany
  IN IF stops = {} THEN NoMessage
     ELSE IF First(stops) > MAX_TOTAL_FILES THEN ErrMaxFiles
     ELSE ErrMaxFileSize(files[First(stops)].size)

\* The handler from its entry through `await parseFormData(req)`.
GifReceive(method, upload) ==
  /\ greq.pc = "idle"
  /\ gifStarted < MaxGifRequests
  /\ gifStarted' = gifStarted + 1
  /\ UNCHANGED <<now, thumbnailCache, calculatedSize, lastDispose, cacheStats, treq,
                 response, missKeys, probe, rreq>>
  /\ LET g == [IdleGif EXCEPT !.method = method, !.upload = upload]
         n == gifStarted + 1
         files == [i \in 1..Len(upload.files) |->
                     [filepath |-> FilePath(n, i), size |-> upload.files[i].size,
                      content |-> upload.files[i]]]
         err == FormidableError(files)
         images == IF upload.field \in {"images", "images[]"} THEN files ELSE <<>>
         frameDelayStr == upload.frameDelay
         frameDelay == IF Truthy(frameDelayStr) THEN ParseInt(frameDelayStr)
                       ELSE Num(DEFAULT_FRAME_DELAY_MS)
     IN IF method # "POST"
        THEN /\ greq' = [g EXCEPT !.pc = "done",
                           !.resp = [NoGifResp EXCEPT !.status = 405,
                                                      !.contentType = "application/json"]]
             /\ UNCHANGED tmpDir
        ELSE IF err # NoMessage
        THEN \* formidable stops at the offending file, removes the files it
             \* opened and passes its error to the callback
             /\ greq' = [g EXCEPT !.pc = "done", !.thrownAt = "formidable",
                           !.resp = GifErrorResp(err)]
             /\ UNCHANGED tmpDir
        ELSE IF Len(images) = 0
        THEN /\ greq' = [g EXCEPT !.pc = "done", !.thrownAt = "noImages",
                           !.resp = GifErrorResp(ErrNoImages)]
             /\ tmpDir' = CleanUp(tmpDir \cup PathsOf(files), g.tempFiles)
        ELSE IF frameDelay.nan \/ frameDelay.val < MIN_FRAME_DELAY_MS
                \/ frameDelay.val > MAX_FRAME_DELAY_MS
        THEN /\ greq' = [g EXCEPT !.pc = "done", !.thrownAt = "frameDelay",
                           !.resp = GifErrorResp(ErrFrameDelay)]
             /\ tmpDir' = CleanUp(tmpDir \cup PathsOf(files), g.tempFiles)
        ELSE /\ greq' = [g EXCEPT !.pc = "audit", !.tempFiles = images,
                           !.frameDelay = frameDelay.val]
             /\ tmpDir' = tmpDir \cup PathsOf(files)

\* Mutant of ExceedsTolerance: a frame exactly 10% larger is rejected too.
ExceedsToleranceInclusive(value, min) == (value - min) * 100 >= TOLERANCE_PERCENT * min

\* (width - min) / min * 100 > 10, in integers
ExceedsTolerance(value, min) == (value - min) * 100 > TOLERANCE_PERCENT * min

\* Steps 1 to 3: the dimensions of every image, the minima, the 10% rule.
GifAudit ==
  /\ greq.pc = "audit"
  /\ UNCHANGED <<now, thumbnailCache, calculatedSize, lastDispose, cacheStats, treq,
                 response, missKeys, gifStarted, probe, rreq>>
  /\ LET images == greq.tempFiles
         unreadable == {i \in 1..Len(images) : images[i].content.kind \in {"corrupt", "noDims"}}
     IN IF unreadable # {}
        THEN LET i == First(unreadable)
                 g == [greq EXCEPT !.metadataReads = i]
             IN IF images[i].content.kind = "corrupt"
                THEN Catch(g, "metadata", ErrUnsupportedImage)
                ELSE Catch(g, "noDims", ErrUnableToReadDimensions(i))
        ELSE LET imageDimensions == [i \in 1..Len(images) |->
                    [width |-> images[i].content.width,
                     height |-> images[i].content.height, index |-> i - 1]]
                 minWidth == Min({imageDimensions[i].width : i \in 1..Len(images)})
                 minHeight == Min({imageDimensions[i].height : i \in 1..Len(images)})
                 over == {i \in 1..Len(images) :
                            \/ ExceedsTolerance(imageDimensions[i].width, minWidth)
                            \/ ExceedsTolerance(imageDimensions[i].height, minHeight)}
                 g == [greq EXCEPT !.metadataReads = Len(images),
                                   !.imageDimensions = imageDimensions,
                                   !.minWidth = minWidth, !.minHeight = minHeight]
             IN IF over # {}
                THEN LET d == imageDimensions[First(over)]
                     IN Catch(g, "tolerance",
                              ErrDimensionsDiffer(d.index + 1, <<d.width, d.height>>,
                                                  <<minWidth, minHeight>>))
                ELSE /\ greq' = [g EXCEPT !.pc = "process"]
                     /\ UNCHANGED tmpDir

\* Mutant of ProcessThrows: a frame that cannot be decoded is passed on.
ProcessThrowsNever(file) == ""

\* processImageFrame: what it throws ("" when it returns) and the frame.
ProcessThrows(file) ==
  IF file.size > MAX_IMAGE_SIZE_BYTES THEN "size"
  ELSE IF file.content.kind = "corrupt" THEN "metadata"
  ELSE IF file.content.kind = "noDims" THEN "noDims"
  ELSE IF file.content.kind = "truncated" THEN "pixels"
  ELSE ""

\* sharp's resize(width, height, {fit: "cover"}) scales the image by the
\* larger of width/w and height/h, so that it covers the target, and cuts off
\* what then overlaps. The pixels are resampled unless that factor is 1, which
\* is when one axis has the target size already and the other is not smaller.
CoverScales(w, h, width, height) ==
  ~ \/ (w = width /\ h >= height)
    \/ (h = height /\ w >= width)

\* Mutant of ProcessedFrame: the crop is skipped.
ProcessedFrameNoCrop(file, cropTo) ==
  [pixels |-> file.filepath, width |-> file.content.width, height |-> file.content.height,
   resized |-> FALSE, scaled |-> FALSE]

\* The frame processImageFrame returns; its pixels are those decoded from the
\* file, named here by the file they come from; `resized` tells whether
\* image.resize(cropTo.width, cropTo.height, ...) was applied and `scaled`
\* whether that resampled the pixels.
ProcessedFrame(file, cropTo) ==
  IF cropTo.crop /\ (file.content.width # cropTo.width \/ file.content.height # cropTo.height)
  THEN [pixels |-> file.filepath, width |-> cropTo.width, height |-> cropTo.height,
        resized |-> TRUE,
        scaled |-> CoverScales(file.content.width, file.content.height,
                               cropTo.width, cropTo.height)]
  ELSE [pixels |-> file.filepath, width |-> file.content.width,
        height |-> file.content.height, resized |-> FALSE, scaled |-> FALSE]

\* Step 4: every image is decoded to RGBA, cropped to the minima if needed.
GifProcess ==
  /\ greq.pc = "process"
  /\ UNCHANGED <<now, thumbnailCache, calculatedSize, lastDispose, cacheStats, treq,
                 response, missKeys, gifStarted, probe, rreq>>
  /\ LET images == greq.tempFiles
         failing == {i \in 1..Len(images) : ProcessThrows(images[i]) # ""}
         upTo == IF failing = {} THEN Len(images) ELSE First(failing) - 1
         frames == [i \in 1..upTo |->
                      LET dim == greq.imageDimensions[i]
                          needsCropping == dim.width # greq.minWidth \/ dim.height # greq.minHeight
                      IN ProcessedFrame(images[i],
                           [crop |-> needsCropping, width |-> greq.minWidth,
                            height |-> greq.minHeight])]
         g == [greq EXCEPT !.processedFrames = frames]
     IN IF failing # {}
        THEN LET i == First(failing)
                 site == ProcessThrows(images[i])
             IN Catch(g, site,
                      CASE site = "size" -> ErrExceeds(i, images[i].size)
                        [] site = "metadata" -> ErrUnsupportedImage
                        [] site = "noDims" -> ErrUnableToReadDimensions(i)
                        [] OTHER -> ErrPixelDecode)
        ELSE /\ greq' = [g EXCEPT !.pc = "encode"]
             /\ UNCHANGED tmpDir

\* Mutant of EncodedDelay: the requested delay is passed on as it is.
EncodedDelayNoFloor(frameDelay) == frameDelay

\* The delay createAnimatedGIF passes to writeFrame.
EncodedDelay(frameDelay) == IF frameDelay < MIN_DELAY_MS THEN MIN_DELAY_MS ELSE frameDelay

\* What gif.bytes() may return: its length and whether it starts with "GIF".
GifBytesChoices ==
  { [length |-> 5, header |-> "GIF"], [length |-> 800, header |-> "GIF"],
    [length |-> 800, header |-> "XXX"], [length |-> 20000, header |-> "GIF"] }

\* Mutant of IsFirst: every frame is written as a first frame.
IsFirstAlways(i) == TRUE

\* writeFrame's option first: i === 0 (frames are numbered from 1 here).
IsFirst(i) == i = 1

\* expectedMinSize = (width * height * frames.length) / 10: below it the
\* encoder only logs a warning. In integers: length < w*h*n/10.
BelowExpectedMinSize(gifBytes, width, height, n) ==
  10 * gifBytes.length < width * height * n

\* Mutant of GifEncode: the header of the byte stream is not verified.
GifEncodeUnverified(gifBytes) ==
  /\ greq.pc = "encode"
  /\ UNCHANGED <<now, thumbnailCache, calculatedSize, lastDispose, cacheStats, treq,
                 response, missKeys, gifStarted, probe, rreq>>
  /\ LET frames == greq.processedFrames
         written == [i \in 1..Len(frames) |->
                       [pixels |-> frames[i].pixels,
                        width |-> frames[1].width, height |-> frames[1].height,
                        delay |-> EncodedDelay(greq.frameDelay), first |-> IsFirst(i)]]
         g == [greq EXCEPT !.encoder = <<frames[1].width, frames[1].height>>,
                           !.written = written]
     IN /\ tmpDir' = CleanUp(tmpDir, g.tempFiles)
        /\ greq' = [g EXCEPT !.pc = "done",
                      !.resp = [status |-> 200, contentType |-> "image/gif",
                                contentLength |-> gifBytes.length,
                                message |-> NoMessage]]

\* createAnimatedGIF, then the cleanup and the response.
GifEncode(gifBytes) ==
  /\ greq.pc = "encode"
  /\ UNCHANGED <<now, thumbnailCache, calculatedSize, lastDispose, cacheStats, treq,
                 response, missKeys, gifStarted, probe, rreq>>
  /\ LET frames == greq.processedFrames
         width == frames[1].width
         height == frames[1].height
         written == [i \in 1..Len(frames) |->
                       [pixels |-> frames[i].pixels, width |-> width, height |-> height,
                        delay |-> EncodedDelay(greq.frameDelay), first |-> IsFirst(i)]]
         g == [greq EXCEPT !.encoder = <<width, height>>, !.written = written]
     IN IF gifBytes.length < 6
        THEN Catch(g, "encode", ErrBytesTooShort)
        ELSE IF gifBytes.header # "GIF"
        THEN Catch(g, "encode", ErrInvalidHeader)
        ELSE /\ tmpDir' = CleanUp(tmpDir, g.tempFiles)
             /\ greq' = [g EXCEPT !.pc = "done",
                           !.resp = [status |-> 200, contentType |-> "image/gif",
                                     contentLength |-> gifBytes.length,
                                     message |-> NoMessage]]

NoProbe == [pc |-> "none"]

(***************************************************************************)
(* POST /api/resize (resize.ts, handler).                                  *)
(***************************************************************************)
\* The parsed request bodies the model sends: an object with an image_url, an
\* object without one, and the JSON value null.
ResizeBodies ==
  { [isNull |-> FALSE, image_url |-> Str(UrlA)], [isNull |-> FALSE, image_url |-> Str(UrlB)],
    [isNull |-> FALSE, image_url |-> Undefined],
    [isNull |-> TRUE, image_url |-> Undefined] }

\* What fetch(image_url) settles to: it rejects (unreachable host, invalid
\* url), or resolves with a response of some status whose body is an image or
\* not. fetch resolves for every status; the handler does not read the status.
ResizeFetchOutcomes ==
  {[rejected |-> TRUE, status |-> 0, body |-> "none"]}
    \cup {[rejected |-> FALSE, status |-> st, body |-> b] :
            st \in {200, 404, 500}, b \in {"image", "other"}}

\* What lqip(data, {outputFormat: "jpeg"}) returns for an image. Its result is
\* {content, metadata}; whether content has a `data` property is the
\* library's matter, both cases are kept.
LqipResults == {[contentData |-> d] : d \in BOOLEAN}

NoResizeResp == [status |-> 0, keys |-> {}]
IdleResize ==
  [pc |-> "idle", n |-> 0, image_url |-> <<>>, fetched |-> "none", fetchStatus |-> 0,
   failure |-> "none", resp |-> NoResizeResp]

\* res.send(data) of an object: properties whose value is undefined are left
\* out of the JSON body.
ResizeBody(result) ==
  (IF result.contentData THEN {"content"} ELSE {}) \cup {"dataURIBase64"}

\* The handler from its entry to `await fetch(image_url)`. req.body.image_url
\* is read before the try block: for a null body the TypeError leaves the
\* handler and the framework answers 500.
ResizeReceive(body) ==
  /\ rreq.pc = "idle"
  /\ rreq.n < MaxResizeRequests
  /\ IF body.isNull
     THEN rreq' = [IdleResize EXCEPT !.pc = "done", !.n = rreq.n + 1,
                                     !.failure = "body",
                                     !.resp = [status |-> 500, keys |-> {}]]
     ELSE rreq' = [IdleResize EXCEPT !.pc = "fetch", !.n = rreq.n + 1,
                     !.image_url = IF Truthy(body.image_url) THEN body.image_url.str
                                   ELSE <<>>]
  /\ UNCHANGED <<now, thumbnailCache, calculatedSize, lastDispose, cacheStats, treq,
                 response, missKeys, gifStarted, greq, tmpDir, probe>>

\* The catch block: status 500, {errorMessage: "Error loading image"}.
ResizeCaught(failure) ==
  [rreq EXCEPT !.pc = "done", !.failure = failure,
               !.resp = [status |-> 500, keys |-> {"errorMessage"}]]

\* await fetch(image_url) settles. An empty url is not a valid url: rejected.
ResizeFetchDone(outcome) ==
  /\ rreq.pc = "fetch"
  /\ rreq.image_url = <<>> => outcome.rejected
  /\ IF outcome.rejected
     THEN rreq' = ResizeCaught("fetch")
     ELSE rreq' = [rreq EXCEPT !.pc = "buffer", !.fetched = outcome.body,
                               !.fetchStatus = outcome.status]
  /\ UNCHANGED <<now, thumbnailCache, calculatedSize, lastDispose, cacheStats, treq,
                 response, missKeys, gifStarted, greq, tmpDir, probe>>

\* await data.arrayBuffer() settles: the body was read, or the read failed.
ResizeBufferDone(read) ==
  /\ rreq.pc = "buffer"
  /\ IF read
     THEN rreq' = [rreq EXCEPT !.pc = "lqip"]
     ELSE rreq' = ResizeCaught("fetch")
  /\ UNCHANGED <<now, thumbnailCache, calculatedSize, lastDispose, cacheStats, treq,
                 response, missKeys, gifStarted, greq, tmpDir, probe>>

\* await lqip(...) settles, and the response is sent: bytes that are no image
\* make it throw.
ResizeLqipDone(result) ==
  /\ rreq.pc = "lqip"
  /\ IF rreq.fetched = "image"
     THEN rreq' = [rreq EXCEPT !.pc = "done",
                               !.resp = [status |-> 200, keys |-> ResizeBody(result)]]
     ELSE rreq' = ResizeCaught("convert")
  /\ UNCHANGED <<now, thumbnailCache, calculatedSize, lastDispose, cacheStats, treq,
                 response, missKeys, gifStarted, greq, tmpDir, probe>>

\* The handler has returned; the next request is taken.
ResizeReturn ==
  /\ rreq.pc = "done"
  /\ rreq' = [IdleResize EXCEPT !.n = rreq.n]
  /\ UNCHANGED <<now, thumbnailCache, calculatedSize, lastDispose, cacheStats, treq,
                 response, missKeys, gifStarted, greq, tmpDir, probe>>

Init ==
  /\ now = 0
  /\ thumbnailCache = <<>>
  /\ calculatedSize = 0
  /\ lastDispose = NoDispose
  /\ cacheStats = [hits |-> 0, misses |-> 0]
  /\ treq = EmptyBag
  /\ response = NoResp
  /\ missKeys = {}
  /\ gifStarted = 0
  /\ greq = IdleGif
  /\ tmpDir = {}
  /\ probe = NoProbe
  /\ rreq = IdleResize

Next ==
  \/ \E q \in Queries : ThumbReceive(q)
  \/ \E req \in BagToSet(treq), o \in FetchOutcomes : ThumbFetchDone(req, o)
  \/ \E req \in BagToSet(treq) : ThumbResizeFailed(req)
  \/ \E req \in BagToSet(treq), b \in ResizedBuffers : ThumbResizeDone(req, b)
  \/ Tick

\* The thumbnail endpoint and its cache.
Spec == Init /\ [][Next]_vars

\* The settling of the two awaits. sharp's pipeline.toBuffer() is a local
\* computation on a buffer already in memory and always settles. fetch(url)
\* is called without a signal or timeout: it settles when the remote server
\* lets it, which the handler does nothing to enforce.
FetchSettles ==
  \E req \in BagToSet(treq), o \in FetchOutcomes : ThumbFetchDone(req, o)
ResizeSettles ==
  \/ \E req \in BagToSet(treq) : ThumbResizeFailed(req)
  \/ \E req \in BagToSet(treq), b \in ResizedBuffers : ThumbResizeDone(req, b)

\* The thumbnail endpoint with the progress its code ensures.
SpecLive == Spec /\ WF_vars(ResizeSettles)

\* The thumbnail endpoint when every source server answers or fails in time.
SpecLiveFetch == SpecLive /\ WF_vars(FetchSettles)

\* The handler has returned; the next request is taken.
GifReturn ==
  /\ greq.pc = "done"
  /\ greq' = IdleGif
  /\ UNCHANGED <<now, thumbnailCache, calculatedSize, lastDispose, cacheStats, treq,
                 response, missKeys, gifStarted, tmpDir, probe, rreq>>

NextGif ==
  \/ /\ greq.pc = "idle"
     /\ \E fs \in FileLists, fn \in FieldNames, fd \in FrameDelayFields :
           GifReceive("POST", [field |-> fn, files |-> fs, frameDelay |-> fd])
  \/ /\ greq.pc = "idle"
     /\ \E m \in OtherMethods : GifReceive(m, IdleGif.upload)
  \/ GifAudit
  \/ GifProcess
  \/ \E b \in GifBytesChoices : GifEncode(b)
  \/ GifReturn

\* The /create-filtered-gif endpoint.
SpecGif == Init /\ [][NextGif]_vars

NextResize ==
  \/ \E body \in ResizeBodies : ResizeReceive(body)
  \/ \E o \in ResizeFetchOutcomes : ResizeFetchDone(o)
  \/ \E read \in BOOLEAN : ResizeBufferDone(read)
  \/ \E result \in LqipResults : ResizeLqipDone(result)
  \/ ResizeReturn

\* The /resize endpoint.
SpecResize == Init /\ [][NextResize]_vars

(***************************************************************************)
(* The /create-filtered-gif endpoint under uploads of up to MaxUploadFiles *)
(* files: one request is drawn and taken through the handler.              *)
(***************************************************************************)
MaxUploadFiles == 22

\* count files of 100x100 pixels, the one at position bigAt (if any) over the
\* size limit, the one at position exactAt (if any) of exactly the limit.
BulkFiles(count, bigAt, exactAt) ==
  [i \in 1..count |->
     IF i = bigAt THEN File("image", MAX_IMAGE_SIZE_BYTES + 1, 100, 100)
     ELSE IF i = exactAt THEN File("image", MAX_IMAGE_SIZE_BYTES, 100, 100)
     ELSE File("image", SmallSize, 100, 100)]
BulkUploads ==
  { [field |-> fn, files |-> BulkFiles(count, bigAt, exactAt), frameDelay |-> fd] :
      fn \in FieldNames, fd \in {Undefined, Str(<<"5">>)},
      count \in 0..MaxUploadFiles, bigAt \in {0, 1, MAX_TOTAL_FILES, MaxUploadFiles},
      exactAt \in {0, 2} }

NextUpload ==
  \/ /\ gifStarted = 0
     /\ \E upload \in BulkUploads : GifReceive("POST", upload)
  \/ GifAudit
  \/ GifProcess
  \/ \E b \in GifBytesChoices : GifEncode(b)
  \/ GifReturn

SpecUpload == Init /\ [][NextUpload]_vars

(***************************************************************************)
(* getCacheKey on its own: two argument tuples are drawn, the keys computed.*)
(***************************************************************************)
KeyUrls ==
  { <<"a">>, <<"a", "|", "1">>, <<"a", "|", "1", "x", "1">>,
    <<"a", "|", "1", "x", "1", "|", "p", "n", "g">>,
    <<"a", "|", "1", "x", "1", "|", "p", "n", "g", "|", "q", "1">> }
KeyWidths == {1, 11, 350}
KeyHeights == {1, 11, -1}
KeyFormats == {<<"p", "n", "g">>, <<"j", "p", "e", "g">>}
KeyQualities == {1, 11}
KeyArgs ==
  [url : KeyUrls, width : KeyWidths, height : KeyHeights, format : KeyFormats,
   quality : KeyQualities]

InitKey ==
  /\ now = 0
  /\ thumbnailCache = <<>>
  /\ calculatedSize = 0
  /\ lastDispose = NoDispose
  /\ cacheStats = [hits |-> 0, misses |-> 0]
  /\ treq = EmptyBag
  /\ response = NoResp
  /\ missKeys = {}
  /\ gifStarted = 0
  /\ greq = IdleGif
  /\ tmpDir = {}
  /\ rreq = IdleResize
  /\ probe \in [pc : {"args"}, a : KeyArgs, b : KeyArgs]

CallGetCacheKey ==
  /\ probe.pc = "args"
  /\ probe' = [pc |-> "keys", a |-> probe.a, b |-> probe.b,
               keyA |-> GetCacheKey(probe.a.url, probe.a.width, probe.a.height,
                                    probe.a.format, probe.a.quality),
               keyB |-> GetCacheKey(probe.b.url, probe.b.width, probe.b.height,
                                    probe.b.format, probe.b.quality)]
  /\ UNCHANGED <<now, thumbnailCache, calculatedSize, lastDispose, cacheStats, treq,
                 response, missKeys, gifStarted, greq, tmpDir, rreq>>

NextKey == CallGetCacheKey

SpecKey == InitKey /\ [][NextKey]_vars

(***************************************************************************)
(* The thumbnail handler from its entry to the cache lookup, on its own:   *)
(* a request is drawn and the handler's synchronous prefix applied.        *)
(***************************************************************************)
UrlPngOnGifHost == <<".", "g", "i", "f", "s", "/", "a", ".", "p", "n", "g">>
ProbeMethods == {"GET", "HEAD", "POST", "DELETE"}
ProbeUrls ==
  { Undefined, Str(<<>>), Arr(<<"a", ",", "b">>), Str(UrlA), Str(UrlB),
    Str(<<"c", ".", "P", "N", "G">>), Str(<<"d", ".", "w", "e", "b", "p">>),
    Str(<<"e", ".", "j", "p", "g">>), Str(UrlPngOnGifHost) }
ProbeWidths ==
  { Undefined, Str(<<"9">>), Str(<<"0">>), Str(<<"-", "5">>), Str(<<"a", "b", "c">>) }
ProbeHeights == { Undefined, Str(<<"7">>), Str(<<"-", "1">>) }
ProbeFormats ==
  { Undefined, Str(<<>>), Str(<<"j", "p", "e", "g">>), Str(<<"J", "P", "G">>),
    Str(<<"p", "n", "g">>), Str(<<"w", "e", "b", "p">>), Str(<<"g", "i", "f">>),
    Str(<<"b", "m", "p">>), Arr(<<"p", "n", "g", ",", "g", "i", "f">>) }
ProbeQualities ==
  { Undefined, Str(<<"1">>), Str(<<"1", "0", "0">>), Str(<<"5", "0", "0">>),
    Str(<<"-", "3">>) }
ProbeQueries ==
  [method : ProbeMethods, url : ProbeUrls, width : ProbeWidths, height : ProbeHeights,
   format : ProbeFormats, quality : ProbeQualities]

InitQuery ==
  /\ now = 0
  /\ thumbnailCache = <<>>
  /\ calculatedSize = 0
  /\ lastDispose = NoDispose
  /\ cacheStats = [hits |-> 0, misses |-> 0]
  /\ treq = EmptyBag
  /\ response = NoResp
  /\ missKeys = {}
  /\ gifStarted = 0
  /\ greq = IdleGif
  /\ tmpDir = {}
  /\ rreq = IdleResize
  /\ probe \in [pc : {"query"}, q : ProbeQueries]

\* The handler runs to the cache lookup: the request is rejected, or its
\* parameters are resolved; contentType is what line 259 makes of the format.
CallValidate ==
  /\ probe.pc = "query"
  /\ LET v == Validate(probe.q)
     IN IF v.ok
        THEN /\ probe' = [pc |-> "lookup", q |-> probe.q, v |-> v,
                          contentType |-> ContentTypeOf(v.normalizedFormat)]
             /\ response' = NoResp
        ELSE /\ probe' = [pc |-> "rejected", q |-> probe.q, v |-> v]
             /\ response' = v.resp
  /\ UNCHANGED <<now, thumbnailCache, calculatedSize, lastDispose, cacheStats, treq,
                 missKeys, gifStarted, greq, tmpDir, rreq>>

NextQuery == CallValidate

SpecQuery == InitQuery /\ [][NextQuery]_vars

(***************************************************************************)
(* The thumbnail endpoint under two requests for one url: a pair of        *)
(* spellings is drawn; the first is sent once, the second after it.        *)
(***************************************************************************)
InitSpelling ==
  /\ now = 0
  /\ thumbnailCache = <<>>
  /\ calculatedSize = 0
  /\ lastDispose = NoDispose
  /\ cacheStats = [hits |-> 0, misses |-> 0]
  /\ treq = EmptyBag
  /\ response = NoResp
  /\ missKeys = {}
  /\ gifStarted = 0
  /\ greq = IdleGif
  /\ tmpDir = {}
  /\ rreq = IdleResize
  /\ probe \in [pc : {"pair"}, first : SpellingFirsts, second : SpellingQueries]

NextSpelling ==
  \/ /\ probe.pc = "pair"
     /\ cacheStats.hits + cacheStats.misses = 0
     /\ ThumbReceive(probe.first)
  \/ /\ probe.pc = "pair"
     /\ cacheStats.hits + cacheStats.misses > 0
     /\ ThumbReceive(probe.second)
  \/ \E req \in BagToSet(treq), o \in FetchOutcomes : ThumbFetchDone(req, o)
  \/ \E req \in BagToSet(treq) : ThumbResizeFailed(req)
  \/ \E req \in BagToSet(treq), b \in ResizedBuffers : ThumbResizeDone(req, b)
  \/ Tick

SpecSpelling == InitSpelling /\ [][NextSpelling]_vars

(***************************************************************************)
(* The two endpoints as a client sees them: the run addresses one of them. *)
(* The handlers share no state.                                            *)
(***************************************************************************)
Endpoints == {"/api/thumbnail", "/api/create-filtered-gif"}

InitAnswer ==
  /\ now = 0
  /\ thumbnailCache = <<>>
  /\ calculatedSize = 0
  /\ lastDispose = NoDispose
  /\ cacheStats = [hits |-> 0, misses |-> 0]
  /\ treq = EmptyBag
  /\ response = NoResp
  /\ missKeys = {}
  /\ gifStarted = 0
  /\ greq = IdleGif
  /\ tmpDir = {}
  /\ rreq = IdleResize
  /\ probe \in [pc : {"endpoint"}, path : Endpoints]

NextAnswer ==
  \/ /\ probe.path = "/api/thumbnail"
     /\ \/ \E q \in AnswerQueries : ThumbReceive(q)
        \/ \E req \in BagToSet(treq), o \in FetchOutcomes : ThumbFetchDone(req, o)
        \/ \E req \in BagToSet(treq) : ThumbResizeFailed(req)
        \/ \E req \in BagToSet(treq), b \in ResizedBuffers : ThumbResizeDone(req, b)
        \/ Tick
  \/ /\ probe.path = "/api/create-filtered-gif"
     /\ NextGif

SpecAnswer == InitAnswer /\ [][NextAnswer]_vars

(***************************************************************************)
(* Properties of the thumbnail cache, checked under Spec.                  *)
(***************************************************************************)
RECURSIVE SumPayload(_)
SumPayload(c) ==
  IF c = <<>> THEN 0 ELSE Head(c).value.buffer.length + SumPayload(Tail(c))

\* The steps the properties speak of. Each names the action and, in front of
\* it, what is seen of that action in every step it takes: a lookup of a valid
\* query counts a hit or a miss, a completed transcode sends its buffer.
Lookup(q) == cacheStats' # cacheStats /\ ThumbReceive(q)
Fetched(req) == req.pc = "fetch" /\ treq' # treq /\ ThumbFetchDone(req, "ok")
Completes(req, b) ==
  req.pc = "resize" /\ response'.body = b /\ ThumbResizeDone(req, b)

\* C1: in every reachable state the payload sizes of the entries resident in
\* the thumbnail cache sum to at most the byte budget of 300 MiB.
C1_BudgetRespected == SumPayload(thumbnailCache) <= 300 * 1024 * 1024

\* C1 witness: a store has just evicted an entry and the cache is full to the byte.
C1_Witness ==
  /\ lastDispose.reason = "evict"
  /\ SumPayload(thumbnailCache) = 300 * 1024 * 1024
  /\ response.xCache = "MISS"

\* C2 as claimed: an entry stored at T is never returned at a time >= T + TTL.
\* The HIT response carries the age since createdAt, as the handler logs it.
C2_NeverServedPastTtlOfStore ==
  response.xCache = "HIT" => response.ageSeconds < 24 * 60 * 60

\* C2 as amended: a lookup never returns an entry when more than the TTL has
\* passed since the entry was stored or last hit, whichever is later.
\* A request arriving later than that is handled as a miss.
C2_NeverServedPastTtlOfLastUse ==
  [][/\ response'.xCache = "HIT" =>
          \E i \in 1..Len(thumbnailCache) :
             /\ thumbnailCache[i].key = response'.cacheKey
             /\ now - thumbnailCache[i].start <= 24 * 60 * 60 * 1000
     /\ \A q \in Queries :
          (/\ Validated[q].ok
           /\ \E i \in 1..Len(thumbnailCache) :
                 /\ thumbnailCache[i].key = Validated[q].cacheKey
                 /\ now - thumbnailCache[i].start > 24 * 60 * 60 * 1000
           /\ Lookup(q))
          => /\ response'.xCache # "HIT"
             /\ cacheStats'.misses = cacheStats.misses + 1
             /\ Validated[q].cacheKey \notin KeysOf(thumbnailCache')
             /\ \E req \in BagToSet(treq') :
                   req.pc = "fetch" /\ req.cacheKey = Validated[q].cacheKey]_vars

\* C2 witness: a lookup found the entry expired, removed it and went on as a miss.
C2_Witness ==
  /\ lastDispose.reason = "expire"
  /\ response = NoResp
  /\ \E req \in BagToSet(treq) : req.pc = "fetch" /\ req.cacheKey = lastDispose.key

FreshlyResident(k) ==
  \E i \in 1..Len(thumbnailCache) :
     thumbnailCache[i].key = k /\ now - thumbnailCache[i].start <= 24 * 60 * 60 * 1000

\* C3 as claimed: once a tuple was answered 200 with X-Cache: MISS, a later
\* request for the same tuple is answered X-Cache: HIT.
C3_MissThenHit ==
  [][\A q \in Queries :
        (Validated[q].ok /\ Validated[q].cacheKey \in missKeys /\ Lookup(q))
        => response'.xCache = "HIT"]_vars

\* C3 as amended: a 200 MISS stores the entry when its payload fits the byte
\* budget, and a later request for the same tuple is answered 200 with
\* X-Cache: HIT as long as the entry is still resident and no more than the
\* TTL has passed since it was stored or last hit.
C3_MissThenHitWhileResident ==
  [][/\ \A req \in BagToSet(treq), b \in ResizedBuffers :
          (Completes(req, b) /\ b.length <= 300 * 1024 * 1024)
          => /\ response'.status = 200 /\ response'.xCache = "MISS"
             /\ req.cacheKey \in KeysOf(thumbnailCache')
     /\ \A q \in Queries :
          (/\ Validated[q].ok
           /\ Validated[q].cacheKey \in missKeys
           /\ FreshlyResident(Validated[q].cacheKey)
           /\ Lookup(q))
          => /\ response'.status = 200 /\ response'.xCache = "HIT"
             /\ response'.cacheKey = Validated[q].cacheKey]_vars

\* C3 witness: a tuple answered MISS before is answered HIT.
C3_Witness ==
  response.status = 200 /\ response.xCache = "HIT" /\ response.cacheKey \in missKeys

(***************************************************************************)
(* Properties of /create-filtered-gif, checked under SpecGif.              *)
(***************************************************************************)
Uploaded == greq.upload.files
UploadedWidths == {Uploaded[i].width : i \in 1..Len(Uploaded)}
UploadedHeights == {Uploaded[i].height : i \in 1..Len(Uploaded)}
\* The form parsed, every image's dimensions could be read, the audit is over.
Audited ==
  /\ greq.pc \in {"process", "encode", "done"}
  /\ greq.tempFiles # <<>>
  /\ \A i \in 1..Len(Uploaded) : Uploaded[i].kind \in {"image", "truncated"}
\* The frames more than 10% wider or higher than the smallest width or height.
BeyondTolerance ==
  {i \in 1..Len(Uploaded) :
      \/ 10 * (Uploaded[i].width - Min(UploadedWidths)) > Min(UploadedWidths)
      \/ 10 * (Uploaded[i].height - Min(UploadedHeights)) > Min(UploadedHeights)}
OwnTempFiles == {f \in tmpDir : f[1] = gifStarted}

\* C4 as claimed: when the response of a /create-filtered-gif request is sent,
\* every temp file written for the request has been deleted.
C4_TempFilesDeleted == greq.pc = "done" => OwnTempFiles = {}

C7_DelayFloor ==
  \A i \in 1..Len(greq.written) :
     /\ greq.frameDelay \in 10..10000
     /\ greq.written[i].delay = (IF greq.frameDelay > 200 THEN greq.frameDelay ELSE 200)
     /\ greq.written[i].delay >= 200
     /\ greq.written[i].delay = greq.written[1].delay

\* C7 witness: two frames written for a requested delay of 10 ms.
C7_Witness == Len(greq.written) = 2 /\ greq.frameDelay = 10

\* The field is a decimal integer literal in [10, 10000].
IsIntegerInRange(v) ==
  /\ v.str # <<>>
  /\ \A i \in 1..Len(v.str) : IsDigit(v.str[i])
  /\ DigitsValue(v.str, 0) \in 10..10000

\* C8 as claimed: a request whose frameDelay is not an integer in [10, 10000]
\* is rejected with 400 before any frame is decoded or handed to the encoder,
\* and an absent frameDelay is 500. (Stated for requests that upload at least
\* one image, each within the size limit, in an images field.)
C8_FrameDelayValidated ==
  (/\ greq.pc # "idle" /\ greq.method = "POST"
   /\ greq.upload.field \in {"images", "images[]"}
   /\ Len(Uploaded) > 0
   /\ \A i \in 1..Len(Uploaded) : Uploaded[i].size <= 10 * 1024 * 1024)
  => /\ (Truthy(greq.upload.frameDelay) /\ ~IsIntegerInRange(greq.upload.frameDelay))
        => /\ greq.pc = "done" /\ greq.resp.status = 400
           /\ greq.metadataReads = 0 /\ greq.processedFrames = <<>> /\ greq.written = <<>>
     /\ ~greq.upload.frameDelay.defined => greq.frameDelay = 500

\* C9 as claimed: a request with zero images is answered 400 with the
\* missing-images message, and a request with an image over 10 MiB is answered
\* 400 with a message naming the image's index and size.
C9_NoImagesAndOversize ==
  (greq.pc = "done" /\ greq.method = "POST") =>
    /\ Len(Uploaded) = 0 =>
         greq.resp.status = 400 /\ Includes(greq.resp.message.text, <<"No", "images">>)
    /\ \A i \in 1..Len(Uploaded) :
         (Uploaded[i].size > 10 * 1024 * 1024 /\
          \A j \in 1..(i - 1) : Uploaded[j].size <= 10 * 1024 * 1024)
         => /\ greq.resp.status = 400
            /\ greq.resp.message.index = i
            /\ greq.resp.message.size = Uploaded[i].size

\* C10 as claimed: validation errors and a dimension mismatch beyond the
\* tolerance are answered 400; a decode failure, an image whose dimensions
\* cannot be read included, and an encoding failure are answered 500.
C10_StatusFollowsFailure ==
  greq.pc = "done" =>
    /\ greq.thrownAt \in {"noImages", "frameDelay", "size", "tolerance"}
         => greq.resp.status = 400
    /\ greq.thrownAt \in {"metadata", "noDims", "pixels", "encode"}
         => greq.resp.status = 500

C11_SmallStreamReturned ==
  /\ greq.pc = "done" /\ greq.resp.status = 200
  /\ BelowExpectedMinSize([length |-> greq.resp.contentLength], greq.encoder[1],
                          greq.encoder[2], Len(greq.written))


C13_KeyInjective ==
  probe.pc = "keys" => ((probe.a = probe.b) <=> (probe.keyA = probe.keyB))

\* C13 witness: two tuples that differ only in the url, one url being the
\* other followed by what looks like the rest of a key, got different keys.
C13_Witness ==
  /\ probe.pc = "keys"
  /\ probe.a.url = <<"a">> /\ probe.b.url = <<"a", "|", "1", "x", "1">>
  /\ [probe.a EXCEPT !.url = <<>>] = [probe.b EXCEPT !.url = <<>>]
  /\ probe.keyA # probe.keyB


\* The value resident under key k.
ValueAt(c, k) == c[CHOOSE i \in 1..Len(c) : c[i].key = k].value

\* C14: a hit serves exactly what was stored. A store keeps under the key the
\* body and Content-Type of the MISS response it sends; a resident entry's
\* value changes only by a store under its key; a HIT response carries the
\* resident entry's body and Content-Type, with Content-Length the body length.
C14_HitServesWhatWasStored ==
  [][/\ \A req \in BagToSet(treq), b \in ResizedBuffers :
          (Completes(req, b) /\ req.cacheKey \in KeysOf(thumbnailCache'))
          => /\ response'.xCache = "MISS"
             /\ ValueAt(thumbnailCache', req.cacheKey).buffer = response'.body
             /\ ValueAt(thumbnailCache', req.cacheKey).contentType = response'.contentType
             /\ response'.contentLength = response'.body.length
     /\ \A k \in KeysOf(thumbnailCache) \cap KeysOf(thumbnailCache') :
          (~ \E req \in BagToSet(treq), b \in ResizedBuffers :
                Completes(req, b) /\ req.cacheKey = k)
          => ValueAt(thumbnailCache', k) = ValueAt(thumbnailCache, k)
     /\ response'.xCache = "HIT" =>
          /\ response'.cacheKey \in KeysOf(thumbnailCache)
          /\ response'.body = ValueAt(thumbnailCache, response'.cacheKey).buffer
          /\ response'.contentType = ValueAt(thumbnailCache, response'.cacheKey).contentType
          /\ response'.contentLength = response'.body.length]_vars

\* C14 witness: a HIT served from a cache of two entries with different
\* bodies and Content-Types.
C14_Witness ==
  /\ response.xCache = "HIT"
  /\ Len(thumbnailCache) = 2
  /\ thumbnailCache[1].value.buffer # thumbnailCache[2].value.buffer
  /\ thumbnailCache[1].value.contentType # thumbnailCache[2].value.contentType
  /\ response.body = thumbnailCache[2].value.buffer


\* The entries other than the one under key k, in recency order.
RECURSIVE Others(_, _)
Others(c, k) ==
  IF c = <<>> THEN <<>>
  ELSE IF Head(c).key = k THEN Others(Tail(c), k)
  ELSE <<Head(c)>> \o Others(Tail(c), k)

C15_HitMovedToMru ==
  /\ response.xCache = "HIT"
  /\ Len(thumbnailCache) = 2
  /\ thumbnailCache[2].key = response.cacheKey
  /\ thumbnailCache[2].value.createdAt < thumbnailCache[1].value.createdAt


\* C16: storing a payload larger than the whole byte budget is rejected:
\* afterwards the cache holds no entry for the key, every other entry is
\* still resident, and the budget invariant holds.
C16_OversizeStoreRejected ==
  [][\A req \in BagToSet(treq), b \in ResizedBuffers :
        (Completes(req, b) /\ b.length > 300 * 1024 * 1024) =>
          /\ req.cacheKey \notin KeysOf(thumbnailCache')
          /\ thumbnailCache' = Others(thumbnailCache, req.cacheKey)
          /\ SumPayload(thumbnailCache') <= 300 * 1024 * 1024
          /\ calculatedSize' = SumPayload(thumbnailCache')]_vars

\* C16 witness: a payload over the budget was produced for a key that had an
\* entry; that entry is gone and the entry of another key is still resident.
C16_Witness ==
  /\ response.xCache = "MISS"
  /\ response.contentLength > 300 * 1024 * 1024
  /\ lastDispose.key = response.cacheKey
  /\ lastDispose.reason \notin {"none", "evict"}
  /\ Len(thumbnailCache) = 1
  /\ response.cacheKey \notin KeysOf(thumbnailCache)


\* The entry under key k has expired: more than the TTL has passed since the
\* cache last started its age.
Expired(k) ==
  \E i \in 1..Len(thumbnailCache) :
     thumbnailCache[i].key = k /\ now - thumbnailCache[i].start > 24 * 60 * 60 * 1000

\* C17: an expired entry is never served, and a lookup that finds the entry
\* expired removes it and takes its bytes off the cache's size, leaving every
\* other entry, before the request goes on as a miss.
C17_ExpiryReclaims ==
  [][\A q \in Queries :
        (Validated[q].ok /\ Lookup(q)) =>
          LET k == Validated[q].cacheKey
          IN /\ Expired(k) =>
                  /\ response'.xCache # "HIT" /\ response'.status # 200
                  /\ thumbnailCache' = Others(thumbnailCache, k)
                  /\ calculatedSize' = calculatedSize - ValueAt(thumbnailCache, k).buffer.length
                  /\ calculatedSize' = SumPayload(thumbnailCache')
                  /\ lastDispose' = [key |-> k, reason |-> "expire"]
                  /\ BagCardinality(treq') = BagCardinality(treq) + 1
             /\ response'.xCache = "HIT" => ~Expired(k)]_vars

\* C17 witness: a lookup removed an expired entry and left the entry of
\* another key, whose bytes are all the cache still counts.
C17_Witness ==
  /\ lastDispose.reason = "expire"
  /\ lastDispose.key \notin KeysOf(thumbnailCache)
  /\ Len(thumbnailCache) = 1
  /\ calculatedSize = thumbnailCache[1].value.buffer.length


\* C18: under every interleaving of thumbnail requests the size the cache
\* reports is the sum of the payload sizes of its resident entries, and each
\* key has at most one resident entry, also when two concurrent misses for
\* one key both store a result.
C18_SizeAccounting ==
  /\ calculatedSize = SumPayload(thumbnailCache)
  /\ \A i, j \in 1..Len(thumbnailCache) :
        thumbnailCache[i].key = thumbnailCache[j].key => i = j

\* C18 witness: the second of two concurrent misses for one key has stored
\* its result over the first one's, with different bytes.
C18_Witness ==
  /\ response.xCache = "MISS"
  /\ lastDispose = [key |-> response.cacheKey, reason |-> "set"]
  /\ now = 0
  /\ response.body.bytes = "y"
  /\ cacheStats.misses = 2 /\ cacheStats.hits = 0
  /\ thumbnailCache[Len(thumbnailCache)].value.buffer = response.body


\* C19: there is no request coalescing. A validated request that does not hit
\* starts a fetch of its own, whatever equal requests are in flight; each
\* request in flight is fetched, transcoded and completed on its own, and
\* each that completes its transcode is answered X-Cache: MISS.
C19_NoCoalescing ==
  [][/\ \A q \in Queries :
          (Validated[q].ok /\ Lookup(q) /\ response'.xCache # "HIT") =>
            LET r == [pc |-> "fetch", cacheKey |-> Validated[q].cacheKey,
                      normalizedFormat |-> Validated[q].normalizedFormat]
            IN /\ CopiesIn(r, treq') = CopiesIn(r, treq) + 1
               /\ BagCardinality(treq') = BagCardinality(treq) + 1
               /\ cacheStats'.misses = cacheStats.misses + 1
     /\ \A req \in BagToSet(treq) :
          /\ Fetched(req) =>
               /\ CopiesIn(req, treq') = CopiesIn(req, treq) - 1
               /\ CopiesIn([req EXCEPT !.pc = "resize"], treq')
                    = CopiesIn([req EXCEPT !.pc = "resize"], treq) + 1
               /\ BagCardinality(treq') = BagCardinality(treq)
          /\ \A b \in ResizedBuffers :
               Completes(req, b) =>
                 /\ response'.status = 200 /\ response'.xCache = "MISS"
                 /\ response'.cacheKey = req.cacheKey
                 /\ CopiesIn(req, treq') = CopiesIn(req, treq) - 1
                 /\ BagCardinality(treq') = BagCardinality(treq) - 1]_vars

\* C19 witness: two identical requests in flight, each with a fetch of its own.
C19_Witness ==
  \E req \in BagToSet(treq) :
     /\ req.pc = "fetch" /\ CopiesIn(req, treq) = 2
     /\ cacheStats.misses = 2 /\ thumbnailCache = <<>>

\* C19, the end of it: the second of the two has been answered MISS as well.
C19_BothAnsweredMiss ==
  /\ response.xCache = "MISS" /\ response.cacheKey \in missKeys
  /\ lastDispose.reason = "set" /\ treq = EmptyBag
  /\ cacheStats = [hits |-> 0, misses |-> 2]


\* The step has written the cache under key k: k became resident or the value
\* under it changed.
Written(k) ==
  /\ k \in KeysOf(thumbnailCache')
  /\ k \in KeysOf(thumbnailCache) => ValueAt(thumbnailCache', k) # ValueAt(thumbnailCache, k)

\* C20: within a request that misses, the steps are in the order fetch,
\* transcode, cache store, respond. A fetch starts only at a lookup that does
\* not hit; a transcode starts only when the request's fetch has settled; the
\* cache is written only by a request whose transcode has finished; and the
\* MISS response is sent only by the step that has done the cache store.
C20_StepOrder ==
  [][/\ \A req \in BagToSet(treq') :
          CopiesIn(req, treq') > CopiesIn(req, treq) =>
            IF req.pc = "fetch"
            THEN /\ cacheStats'.misses = cacheStats.misses + 1
                 /\ response' = NoResp
                 /\ ~Written(req.cacheKey)
            ELSE /\ req.pc = "resize"
                 /\ CopiesIn([req EXCEPT !.pc = "fetch"], treq')
                      = CopiesIn([req EXCEPT !.pc = "fetch"], treq) - 1
                 /\ response' = NoResp
                 /\ thumbnailCache' = thumbnailCache
     /\ \A k \in KeysOf(thumbnailCache') :
          Written(k) =>
            \E req \in BagToSet(treq) :
               /\ req.pc = "resize" /\ req.cacheKey = k
               /\ CopiesIn(req, treq') = CopiesIn(req, treq) - 1
               /\ response'.xCache = "MISS" /\ response'.cacheKey = k
               /\ response'.body = ValueAt(thumbnailCache', k).buffer
     /\ response'.xCache = "MISS" =>
          \E req \in BagToSet(treq) :
             /\ req.pc = "resize" /\ req.cacheKey = response'.cacheKey
             /\ CopiesIn(req, treq') = CopiesIn(req, treq) - 1
             /\ response'.contentLength <= CACHE_MAX_SIZE_BYTES =>
                  /\ thumbnailCache' # <<>>
                  /\ thumbnailCache'[Len(thumbnailCache')].key = req.cacheKey
                  /\ thumbnailCache'[Len(thumbnailCache')].value.buffer = response'.body
                  /\ thumbnailCache'[Len(thumbnailCache')].value.createdAt = now']_vars

\* C20 witness: a request went through lookup, fetch and transcode; its
\* result is in the cache and its MISS response has been sent.
C20_Witness ==
  /\ response.xCache = "MISS" /\ response.status = 200
  /\ cacheStats = [hits |-> 0, misses |-> 1]
  /\ treq = EmptyBag
  /\ Len(thumbnailCache) = 1
  /\ thumbnailCache[1].key = response.cacheKey
  /\ thumbnailCache[1].value.buffer = response.body



(***************************************************************************)
(* Properties of the thumbnail handler's validation, checked under         *)
(* SpecQuery.                                                              *)
(***************************************************************************)
\* The format parameter names one of jpeg, jpg, png, webp, gif, in any case.
FormatInSet(f) == IsString(f) /\ ToLowerCase(f.str) \in ValidFormats

\* C21: a method other than GET or HEAD is answered 405; a GET or HEAD
\* request with a missing or non-string url, or with a format outside
\* {jpeg, jpg, png, webp, gif}, is answered 400.
C21_RejectedWithStatus ==
  probe.pc # "query" =>
    /\ probe.q.method \notin {"GET", "HEAD"} => response.status = 405
    /\ (probe.q.method \in {"GET", "HEAD"}
        /\ (~IsString(probe.q.url) \/ probe.q.url.str = <<>>))
       => response.status = 400
    /\ (probe.q.method \in {"GET", "HEAD"}
        /\ Truthy(probe.q.format) /\ ~FormatInSet(probe.q.format))
       => response.status = 400

\* C21, the part that holds: the method and url rules, and the format rule for
\* a format given once.
C21_RejectedGivenOnce ==
  probe.pc # "query" =>
    /\ probe.q.method \notin {"GET", "HEAD"} => response.status = 405
    /\ (probe.q.method \in {"GET", "HEAD"}
        /\ (~IsString(probe.q.url) \/ probe.q.url.str = <<>>))
       => response.status = 400
    /\ (probe.q.method \in {"GET", "HEAD"} /\ IsString(probe.q.url)
        /\ probe.q.url.str # <<>>
        /\ Truthy(probe.q.format) /\ IsString(probe.q.format)
        /\ ~FormatInSet(probe.q.format))
       => response.status = 400

\* C21: a request whose format parameter is given twice has been answered 500.
C21_FormatGivenTwice ==
  /\ probe.pc = "rejected"
  /\ probe.q.method = "GET" /\ IsString(probe.q.url) /\ probe.q.url.str # <<>>
  /\ ~IsString(probe.q.format) /\ probe.q.format.defined
  /\ response.status = 500


(***************************************************************************)
(* Failures of the thumbnail request, checked under Spec.                  *)
(***************************************************************************)
\* The entries a lookup at time t can still return.
Live(c, t) == SelectSeq(c, LAMBDA e : ~IsStale(e, t))

\* The step is the failure of req: its fetch failed or was answered not ok,
\* or its transcode failed.
Fails(req) ==
  /\ response'.status = 500
  /\ \/ ThumbFetchDone(req, "rejected")
     \/ ThumbFetchDone(req, "notOk")
     \/ ThumbResizeFailed(req)

OutputFormats ==
  {<<"j", "p", "e", "g">>, <<"p", "n", "g">>, <<"w", "e", "b", "p">>, <<"g", "i", "f">>}

\* C23: every request that reaches the cache lookup carries a well-formed
\* TransformRequest: targetWidth > 0, targetHeight > 0, format one of jpeg,
\* png, webp, gif, and quality in 1..100.
C23_WellFormedTransformRequest ==
  probe.pc = "lookup" =>
    /\ probe.v.targetWidth > 0
    /\ probe.v.targetHeight > 0
    /\ probe.v.normalizedFormat \in OutputFormats
    /\ probe.v.outputQuality \in 1..100

\* C23: a request with width=-5 and quality=500 has reached the lookup with
\* those values.
C23_NegativeWidthReachesLookup ==
  /\ probe.pc = "lookup"
  /\ probe.v.targetWidth = -5
  /\ probe.v.outputQuality = 500
  /\ probe.v.cacheKey = UrlA \o <<"|", "-", "5", "x", "3", "5", "0", "|", "g", "i", "f",
                                  "|", "q", "5", "0", "0">>


\* The output format an explicit format parameter names, and its media type.
FormatNamed(f) ==
  CASE f.str = <<"j", "p", "e", "g">> -> <<"j", "p", "e", "g">>
    [] f.str = <<"J", "P", "G">> -> <<"j", "p", "e", "g">>
    [] f.str = <<"p", "n", "g">> -> <<"p", "n", "g">>
    [] f.str = <<"w", "e", "b", "p">> -> <<"w", "e", "b", "p">>
    [] f.str = <<"g", "i", "f">> -> <<"g", "i", "f">>
MediaTypeOf(fmt) ==
  CASE fmt = <<"j", "p", "e", "g">> -> "image/jpeg"
    [] fmt = <<"p", "n", "g">> -> "image/png"
    [] fmt = <<"w", "e", "b", "p">> -> "image/webp"
    [] fmt = <<"g", "i", "f">> -> "image/gif"

\* A GET or HEAD request with a usable url.
Addressed(q) ==
  q.method \in {"GET", "HEAD"} /\ IsString(q.url) /\ q.url.str # <<>>

\* C24: when an explicit valid format is supplied, the output format, the
\* Content-Type and the format in the cache key are that format, whatever
\* extension the url has.
C24_ExplicitFormatWins ==
  (probe.pc # "query" /\ Addressed(probe.q) /\ FormatInSet(probe.q.format)) =>
    /\ probe.pc = "lookup"
    /\ probe.v.normalizedFormat = FormatNamed(probe.q.format)
    /\ probe.contentType = MediaTypeOf(FormatNamed(probe.q.format))
    /\ probe.v.cacheKey =
         probe.q.url.str \o <<"|">> \o NumToStr(probe.v.targetWidth) \o <<"x">>
           \o NumToStr(probe.v.targetHeight) \o <<"|">>
           \o FormatNamed(probe.q.format) \o <<"|", "q">>
           \o NumToStr(probe.v.outputQuality)

\* C24 witness: a .gif url requested as png is resolved to png.
C24_Witness ==
  /\ probe.pc = "lookup"
  /\ probe.q.url = Str(UrlA)
  /\ probe.q.format = Str(<<"p", "n", "g">>)
  /\ probe.contentType = "image/png"
  /\ probe.v.normalizedFormat = <<"p", "n", "g">>

\* The url's file extension: what follows its last dot, in lower case.
Extension(url) ==
  LET dots == {i \in 1..Len(url) : url[i] = "."}
  IN IF dots = {} THEN <<>>
     ELSE ToLowerCase(SubSeq(url, (CHOOSE i \in dots : \A j \in dots : j <= i) + 1,
                             Len(url)))
FormatOfExtension(ext) ==
  IF ext \in {<<"g", "i", "f">>, <<"p", "n", "g">>, <<"w", "e", "b", "p">>}
  THEN ext ELSE <<"j", "p", "e", "g">>

\* C25: when no format is given, the output format is determined by the
\* url's file extension: .gif gives gif, .png gives png, .webp gives webp and
\* anything else gives jpeg.
C25_FormatByExtension ==
  (probe.pc # "query" /\ Addressed(probe.q) /\ ~Truthy(probe.q.format)) =>
    /\ probe.pc = "lookup"
    /\ probe.v.normalizedFormat = FormatOfExtension(Extension(probe.q.url.str))

\* C25: a url ending in .png whose host contains ".gif" is resolved to gif.
C25_PngResolvedAsGif ==
  /\ probe.pc = "lookup"
  /\ ~Truthy(probe.q.format)
  /\ Extension(probe.q.url.str) = <<"p", "n", "g">>
  /\ probe.v.normalizedFormat = <<"g", "i", "f">>
  /\ probe.contentType = "image/gif"


\* The number of requests in flight that wait at the given await.
Waiting(bag, pc) ==
  BagCardinality([r \in {x \in BagToSet(bag) : x.pc = pc} |-> bag[r]])

\* C27: no retries. A request starts a fetch only at its lookup, once; when a
\* fetch settles the request leaves the fetch for good: to the transcode when
\* it succeeded, with a 500 response in the same step when it failed. A
\* transcode starts only from the request's own successful fetch, and its
\* failure is answered 500 in the same step. No step starts a fetch or a
\* transcode again.
C27_NoRetries ==
  [][LET f == Waiting(treq, "fetch")
         r == Waiting(treq, "resize")
         ff == Waiting(treq', "fetch")
         rr == Waiting(treq', "resize")
     IN /\ ff > f => /\ ff = f + 1 /\ rr = r
                     /\ cacheStats'.misses = cacheStats.misses + 1
                     /\ response' = NoResp
        /\ rr > r => /\ rr = r + 1 /\ ff = f - 1
                     /\ cacheStats' = cacheStats
        /\ \A req \in BagToSet(treq) :
             /\ (req.pc = "fetch" /\ \E o \in FetchOutcomes : ThumbFetchDone(req, o))
                  => ff = f - 1
             /\ Fails(req) => /\ ff + rr = f + r - 1
                              /\ ff <= f /\ rr <= r
                              /\ response'.status = 500
                              /\ cacheStats' = cacheStats]_vars

\* C27 witness: one request, one fetch, which failed and was answered 500;
\* nothing is in flight.
C27_Witness ==
  /\ response.status = 500
  /\ treq = EmptyBag
  /\ cacheStats = [hits |-> 0, misses |-> 1]
  /\ thumbnailCache = <<>>

(***************************************************************************)
(* Progress of the thumbnail request, checked under SpecLive.              *)
(***************************************************************************)
\* C26: every request that passes validation eventually receives a response.
\* A request that is not answered at once by a hit waits in treq until its
\* response is sent; the requests are finitely many, so all are answered when
\* treq empties whenever it is not empty.
C26_EveryRequestAnswered == (treq # EmptyBag) ~> (treq = EmptyBag)

\* C26: a request is waiting for its fetch.
C26_WaitingForFetch ==
  \E req \in BagToSet(treq) : req.pc = "fetch" /\ BagCardinality(treq) = 1


(***************************************************************************)
(* Order of the steps of /create-filtered-gif, checked under SpecGif.      *)
(***************************************************************************)
\* Where a request can fail before any frame is decoded to pixels.
ChecksBeforeDecode ==
  {"formidable", "noImages", "frameDelay", "metadata", "noDims", "tolerance"}

\* C29: the steps of a request are in the order form parse and frameDelay
\* validation, dimension audit of all frames, tolerance check, per-frame
\* decode and crop, encode, cleanup, respond. Dimensions are read only after
\* the form parsed with a valid frameDelay; a frame is decoded to pixels only
\* after all frames were audited and none is beyond the tolerance; the encoder
\* is invoked only after every frame was decoded, never when a check failed;
\* the response is sent only after the request's temp files were cleaned up.
C29_GifStepOrder ==
  /\ greq.metadataReads > 0 =>
       /\ greq.tempFiles # <<>>
       /\ greq.frameDelay \in 10..10000
       /\ greq.thrownAt \notin {"formidable", "noImages", "frameDelay"}
  /\ greq.processedFrames # <<>> =>
       /\ greq.metadataReads = Len(greq.tempFiles)
       /\ Len(greq.imageDimensions) = Len(greq.tempFiles)
       /\ Audited /\ BeyondTolerance = {}
       /\ greq.thrownAt \notin ChecksBeforeDecode
  /\ greq.written # <<>> =>
       /\ Len(greq.processedFrames) = Len(greq.tempFiles)
       /\ \A i \in 1..Len(Uploaded) : Uploaded[i].kind = "image"
       /\ greq.thrownAt \in {"", "encode"}
       /\ greq.pc = "done"
  /\ greq.thrownAt \notin {"", "encode"} =>
       /\ greq.written = <<>> /\ greq.encoder = <<0, 0>>
       /\ greq.resp.status # 200
  /\ (greq.pc = "done" /\ greq.resp.status = 200) =>
       /\ greq.written # <<>>
       /\ greq.thrownAt = ""
  /\ (greq.pc = "done" /\ greq.tempFiles # <<>>) =>
       PathsOf(greq.tempFiles) \cap tmpDir = {}
  /\ greq.pc \in {"audit", "process", "encode"} =>
       /\ PathsOf(greq.tempFiles) \subseteq tmpDir
       /\ greq.resp = NoGifResp

\* C29 witness: a request of two frames went through every step and was
\* answered 200 after its temp files were removed.
C29_Witness ==
  /\ greq.pc = "done" /\ greq.resp.status = 200
  /\ greq.metadataReads = 2
  /\ Len(greq.processedFrames) = 2
  /\ Len(greq.written) = 2
  /\ OwnTempFiles = {}

\* C29: a request failed at the decode of its second frame, after the first
\* was decoded; the encoder was not invoked.
C29_FailedAtDecode ==
  /\ greq.pc = "done" /\ greq.thrownAt = "pixels"
  /\ Len(greq.processedFrames) = 1
  /\ greq.written = <<>>
  /\ greq.resp.status = 500

\* C30: every frame handed to the GIF encoder has exactly the dimensions
\* (minW, minH), the per-axis minima over all uploaded frames: a frame whose
\* dimensions differ is cropped to (minW, minH), its pixels cut off and not
\* scaled; a frame that matches is passed through without resizing; and the
\* encoder's canvas is (minW, minH).
C30_FramesAtMinimum ==
  greq.pc \in {"encode", "done"} =>
    /\ \A i \in 1..Len(greq.processedFrames) :
          /\ greq.processedFrames[i].width = Min(UploadedWidths)
          /\ greq.processedFrames[i].height = Min(UploadedHeights)
          /\ greq.processedFrames[i].resized <=>
               <<Uploaded[i].width, Uploaded[i].height>>
                 # <<Min(UploadedWidths), Min(UploadedHeights)>>
          /\ ~greq.processedFrames[i].scaled
    /\ greq.written # <<>> =>
          /\ greq.encoder = <<Min(UploadedWidths), Min(UploadedHeights)>>
          /\ \A i \in 1..Len(greq.written) :
                /\ greq.written[i].pixels = greq.processedFrames[i].pixels
                /\ <<greq.written[i].width, greq.written[i].height>> = greq.encoder

\* C30, the dimensions: every frame handed to the encoder and the encoder's
\* canvas have the per-axis minima, and a frame is resized exactly when its
\* dimensions differ from them.
C30_DimensionsAtMinimum ==
  greq.pc \in {"encode", "done"} =>
    /\ \A i \in 1..Len(greq.processedFrames) :
          /\ <<greq.processedFrames[i].width, greq.processedFrames[i].height>>
               = <<Min(UploadedWidths), Min(UploadedHeights)>>
          /\ ~greq.processedFrames[i].resized <=>
               <<Uploaded[i].width, Uploaded[i].height>>
                 = <<Min(UploadedWidths), Min(UploadedHeights)>>
    /\ greq.written # <<>> =>
          greq.encoder = <<Min(UploadedWidths), Min(UploadedHeights)>>

\* C30: a frame of 110x110 uploaded with one of 100x100 was scaled down to
\* 100x100, nothing of it cut off, and encoded.
C30_ScaledNotCropped ==
  /\ greq.pc = "done" /\ greq.resp.status = 200
  /\ Len(Uploaded) = 2
  /\ <<Uploaded[1].width, Uploaded[1].height>> = <<110, 110>>
  /\ <<Uploaded[2].width, Uploaded[2].height>> = <<100, 100>>
  /\ greq.processedFrames[1].scaled
  /\ greq.encoder = <<100, 100>>

(***************************************************************************)
(* Properties of /resize, checked under SpecResize.                        *)
(***************************************************************************)
\* C28: every /resize request is answered 200 with a body {content,
\* dataURIBase64} when the fetch and the preview generation succeed, and 500
\* with a body {errorMessage} on any failure of the fetch (the source is
\* unreachable or answers with a status that is not 2xx) or of the conversion;
\* no other status is produced.
C28_ResizeStatusAndBody ==
  rreq.pc = "done" =>
    /\ rreq.resp.status \in {200, 500}
    /\ rreq.resp.status = 200 =>
         /\ rreq.fetchStatus \in 200..299 /\ rreq.fetched = "image"
         /\ rreq.failure = "none"
         /\ rreq.resp.keys = {"content", "dataURIBase64"}
    /\ (rreq.failure \in {"fetch", "convert"} \/ (rreq.fetched # "none" /\ rreq.fetchStatus \notin 200..299))
         => /\ rreq.resp.status = 500
            /\ rreq.resp.keys = {"errorMessage"}

\* C28: the source answered with a status that is not 2xx and an image as its
\* body; the request was answered 200.
C28_NotOkAnswered200 ==
  /\ rreq.pc = "done"
  /\ rreq.resp.status = 200
  /\ rreq.fetchStatus = 404

\* C28, the statuses: only 200 and 500 are produced, 500 with {errorMessage}
\* whenever the fetch rejects, the body cannot be read or the conversion throws.
C28_OnlyTwoStatuses ==
  rreq.pc = "done" =>
    /\ rreq.resp.status \in {200, 500}
    /\ rreq.failure \in {"fetch", "convert"} =>
         rreq.resp = [status |-> 500, keys |-> {"errorMessage"}]
    /\ rreq.resp.status = 200 => "dataURIBase64" \in rreq.resp.keys

(***************************************************************************)
(* Properties of the upload limits, checked under SpecUpload.              *)
(***************************************************************************)
\* The request is at the encoder or has had its frames written by it.
AtEncoder == greq.pc = "encode" \/ greq.written # <<>>

\* C31: a request that reaches the encoder uploaded between 1 and 20 files,
\* each of at most 10 MiB, and the encoder gets one frame for each of them: it
\* never encodes zero frames or more than 20.
C31_OneToTwentyFrames ==
  AtEncoder =>
    /\ Len(greq.upload.files) \in 1..MAX_TOTAL_FILES
    /\ \A i \in 1..Len(greq.upload.files) :
          greq.upload.files[i].size <= MAX_IMAGE_SIZE_BYTES
    /\ Len(greq.tempFiles) \in 1..MAX_TOTAL_FILES
    /\ Len(greq.processedFrames) = Len(greq.tempFiles)
    /\ greq.written # <<>> => Len(greq.written) = Len(greq.processedFrames)

\* A GIF of exactly 20 frames, one of them from a file of exactly 10 MiB, is
\* returned.
C31_Witness ==
  /\ greq.pc = "done"
  /\ greq.resp.status = 200
  /\ Len(greq.written) = MAX_TOTAL_FILES
  /\ \E i \in 1..Len(greq.upload.files) :
        greq.upload.files[i].size = MAX_IMAGE_SIZE_BYTES

(***************************************************************************)
(* Further properties of the thumbnail cache, checked under Spec.          *)
(***************************************************************************)
\* The entry under key k (k is resident).
EntryAt(c, k) == c[IndexOf(c, k)]

\* C32 as claimed: a resident entry is served by a lookup exactly when less
\* than the TTL has elapsed since it was stored or last hit.
C32_ServedBelowTtl ==
  [][\A q \in Queries :
       (/\ Validated[q].ok
        /\ Validated[q].cacheKey \in KeysOf(thumbnailCache)
        /\ Lookup(q))
       => (response'.xCache = "HIT"
             <=> now - EntryAt(thumbnailCache, Validated[q].cacheKey).start < CACHE_TTL_MS)]_vars

\* C32 as amended: a store and a hit both set the entry's age to zero and make
\* it the most recently used; a resident entry is served by a lookup exactly
\* when no more than the TTL has elapsed since then.
C32_ServedUpToTtl ==
  [][/\ \A q \in Queries :
          (/\ Validated[q].ok
           /\ Validated[q].cacheKey \in KeysOf(thumbnailCache)
           /\ Lookup(q))
          => LET k == Validated[q].cacheKey
                 e == EntryAt(thumbnailCache, k)
             IN /\ response'.xCache = "HIT" <=> now - e.start <= CACHE_TTL_MS
                /\ response'.xCache = "HIT" =>
                     /\ thumbnailCache' # <<>>
                     /\ thumbnailCache'[Len(thumbnailCache')] = [e EXCEPT !.start = now]
     /\ \A req \in BagToSet(treq), b \in ResizedBuffers :
          (Completes(req, b) /\ req.cacheKey \in KeysOf(thumbnailCache'))
          => /\ thumbnailCache'[Len(thumbnailCache')].key = req.cacheKey
             /\ thumbnailCache'[Len(thumbnailCache')].start = now]_vars

\* An entry is served when more than the TTL has passed since it was stored:
\* it was hit in between.
C32_Witness ==
  /\ response.xCache = "HIT"
  /\ response.ageSeconds * 1000 > CACHE_TTL_MS
  /\ \E i \in 1..Len(thumbnailCache) :
        thumbnailCache[i].key = response.cacheKey /\ thumbnailCache[i].start = now

\* C33: a hit changes the hit entry's place in the recency order and its age
\* and counts one hit; it leaves that entry's value (buffer, contentType,
\* createdAt) and size, every other entry, the set of resident keys and the
\* total size as they were. The value under a resident key changes only in a
\* step that completes a transcode for that key, and then to the whole new
\* value that step stores.
C33_EntriesImmutable ==
  [][/\ \A q \in Queries :
          (response'.xCache = "HIT" /\ Lookup(q)) =>
            LET k == Validated[q].cacheKey
            IN /\ k \in KeysOf(thumbnailCache)
               /\ KeysOf(thumbnailCache') = KeysOf(thumbnailCache)
               /\ EntryAt(thumbnailCache', k).value = EntryAt(thumbnailCache, k).value
               /\ EntryAt(thumbnailCache', k).size = EntryAt(thumbnailCache, k).size
               /\ Others(thumbnailCache', k) = Others(thumbnailCache, k)
               /\ calculatedSize' = calculatedSize
               /\ SumPayload(thumbnailCache') = SumPayload(thumbnailCache)
               /\ cacheStats' = [cacheStats EXCEPT !.hits = @ + 1]
               /\ treq' = treq
     /\ \A k \in KeysOf(thumbnailCache) \cap KeysOf(thumbnailCache') :
          EntryAt(thumbnailCache', k).value # EntryAt(thumbnailCache, k).value
          => \E req \in BagToSet(treq), b \in ResizedBuffers :
                /\ req.cacheKey = k
                /\ Completes(req, b)
                /\ EntryAt(thumbnailCache', k).value =
                     [buffer |-> b, contentType |-> ContentTypeOf(req.normalizedFormat),
                      createdAt |-> now]
                /\ EntryAt(thumbnailCache', k).size = b.length]_vars

\* A hit on one of two resident entries, with the age of the hit entry
\* refreshed after it was created and the other entry stale by then.
C33_Witness ==
  /\ response.xCache = "HIT"
  /\ Len(thumbnailCache) = 2
  /\ thumbnailCache[2].key = response.cacheKey
  /\ thumbnailCache[2].start = now
  /\ thumbnailCache[2].value.createdAt < now
  /\ now - thumbnailCache[1].start > CACHE_TTL_MS

\* A request that passed the checks of method, url and format takes its step
\* to the cache lookup: it is answered from the cache or starts its fetch.
LooksUp(q) ==
  /\ Validated[q].ok
  /\ response'.xCache = "HIT" \/ BagCardinality(treq') > BagCardinality(treq)
  /\ ThumbReceive(q)

\* C34: the counters never decrease; a request that passed validation adds
\* one to exactly one of them in its lookup step, to hits when it is answered
\* X-Cache: HIT and to misses otherwise; no other step (a rejected request, a
\* fetch or transcode that settles, succeeding or failing, the passing of
\* time) changes them. Every request in flight has been counted as a miss.
C34_CountersCountLookups ==
  [][/\ cacheStats'.hits >= cacheStats.hits
     /\ cacheStats'.misses >= cacheStats.misses
     /\ cacheStats.misses >= BagCardinality(treq)
     /\ \A q \in Queries :
          LooksUp(q) =>
            IF response'.xCache = "HIT"
            THEN /\ cacheStats'.hits = cacheStats.hits + 1
                 /\ cacheStats'.misses = cacheStats.misses
            ELSE /\ cacheStats'.misses = cacheStats.misses + 1
                 /\ cacheStats'.hits = cacheStats.hits
                 /\ response' = NoResp
     /\ cacheStats' # cacheStats => \E q \in Queries : LooksUp(q)
     /\ \A req \in BagToSet(treq) : Fails(req) => cacheStats' = cacheStats]_vars

\* A hit and two misses were counted; the request of the second miss failed
\* and was answered 500; nothing is in flight.
C34_Witness ==
  /\ cacheStats = [hits |-> 1, misses |-> 2]
  /\ response.status = 500
  /\ response.error = "Failed to process image"
  /\ treq = EmptyBag

\* C35: a request with a method other than GET and HEAD is answered 405, and
\* a request answered 405 or 400 leaves the cache (its entries, their order
\* and ages, its size), the counters and the requests in flight as they
\* were: no entry is looked up, expired or moved and no fetch is started.
C35_RejectedHasNoEffect ==
  [][\A q \in Queries :
       /\ (q.method \notin {"GET", "HEAD"} /\ ThumbReceive(q)) => response'.status = 405
       /\ (response'.status \in {400, 405} /\ ThumbReceive(q)) =>
            /\ thumbnailCache' = thumbnailCache
            /\ calculatedSize' = calculatedSize
            /\ cacheStats' = cacheStats
            /\ treq' = treq
            /\ missKeys' = missKeys
            /\ lastDispose' = NoDispose]_vars

\* A request was answered 405 while the cache held a stale entry, which a
\* lookup of its key would have removed, and another request was in flight.
C35_Witness ==
  /\ response.status = 405
  /\ thumbnailCache # <<>>
  /\ \E i \in 1..Len(thumbnailCache) :
        /\ IsStale(thumbnailCache[i], now)
        /\ \E q \in Queries :
              /\ q.method = "POST"
              /\ Validate([q EXCEPT !.method = "GET"]).cacheKey = thumbnailCache[i].key
  /\ treq # EmptyBag

(***************************************************************************)
(* Properties of the spelling of requests, checked under SpecSpelling.     *)
(***************************************************************************)
\* A request with every parameter written out: the defaults for a width,
\* height or quality left out, the format detected from the url for a format
\* left out, the format in lower case, jpeg for jpg.
SpelledOut(q) ==
  [method |-> q.method, url |-> q.url,
   width |-> IF q.width = Undefined THEN Str(<<"3", "5", "0">>) ELSE q.width,
   height |-> IF q.height = Undefined THEN Str(<<"3", "5", "0">>) ELSE q.height,
   quality |-> IF q.quality = Undefined THEN Str(<<"8", "0">>) ELSE q.quality,
   format |-> IF q.format = Undefined THEN DetectFormatFromUrl(q.url.str)
              ELSE IF ToLowerCase(q.format.str) = <<"j", "p", "g">> THEN <<"j", "p", "e", "g">>
              ELSE ToLowerCase(q.format.str)]

\* The two requests of the pair differ in spelling only.
SameRequest == SpelledOut(probe.first) = SpelledOut(probe.second)

\* The second request of the pair takes its step to the cache lookup.
SecondLooksUp ==
  /\ cacheStats.hits + cacheStats.misses > 0
  /\ cacheStats' # cacheStats
  /\ ThumbReceive(probe.second)

\* C36 as claimed: two requests that differ in spelling only have the same
\* cache key, and once one was answered 200 with X-Cache: MISS the second is
\* answered X-Cache: HIT.
C36_SameKeyThenHit ==
  [][SameRequest =>
       /\ Validated[probe.first].cacheKey = Validated[probe.second].cacheKey
       /\ (Validated[probe.first].cacheKey \in missKeys /\ SecondLooksUp)
            => response'.xCache = "HIT"]_vars

\* C36 as amended: two requests that differ in spelling only have the same
\* cache key and normalized format, and the second is answered X-Cache: HIT,
\* with the entry stored under that key, whenever that entry is resident and
\* no more than the TTL has passed since it was stored or last hit.
C36_SameKeyHitWhileResident ==
  [][SameRequest =>
       /\ Validated[probe.first].cacheKey = Validated[probe.second].cacheKey
       /\ Validated[probe.first].normalizedFormat = Validated[probe.second].normalizedFormat
       /\ (FreshlyResident(Validated[probe.first].cacheKey) /\ SecondLooksUp)
            => /\ response'.status = 200 /\ response'.xCache = "HIT"
               /\ response'.cacheKey = Validated[probe.first].cacheKey
               /\ response'.body = ValueAt(thumbnailCache, Validated[probe.first].cacheKey).buffer]_vars

\* A request with format JPG and the defaults written out was answered MISS;
\* the request with format jpg and nothing else is answered HIT.
C36_Witness ==
  /\ probe.pc = "pair"
  /\ probe.first.format = Str(<<"J", "P", "G">>)
  /\ probe.first.width = Str(<<"3", "5", "0">>)
  /\ probe.second.format = Str(<<"j", "p", "g">>)
  /\ probe.second.width = Undefined
  /\ cacheStats = [hits |-> 1, misses |-> 1]
  /\ response.xCache = "HIT"
  /\ response.cacheKey \in missKeys

\* The first request of the pair is a HEAD, the second a GET for the same
\* tuple, in whatever spelling.
HeadThenGet ==
  /\ probe.first.method = "HEAD"
  /\ probe.second.method = "GET"
  /\ [SpelledOut(probe.first) EXCEPT !.method = "GET"] = SpelledOut(probe.second)

\* Exactly one request, the first of the pair, has reached the lookup, and
\* it was answered 200 with X-Cache: MISS.
FirstSucceeded ==
  /\ cacheStats = [hits |-> 0, misses |-> 1]
  /\ Validated[probe.first].ok
  /\ Validated[probe.first].cacheKey \in missKeys

\* C37 as claimed: a HEAD answered 200 with X-Cache: MISS, followed by a GET
\* for the same tuple: the GET is answered X-Cache: HIT.
C37_HeadMissThenGetHit ==
  [][(HeadThenGet /\ FirstSucceeded /\ SecondLooksUp) => response'.xCache = "HIT"]_vars

\* C37 as amended: a HEAD is resolved to the same cache key and format as the
\* GET for its tuple; its lookup counts a miss and starts a fetch; when its
\* transcode completes it is answered 200 with X-Cache: MISS and the entry is
\* stored under that key if it fits the budget; the GET that follows is
\* counted as a hit and answered X-Cache: HIT with that entry whenever the
\* entry is resident and no more than the TTL has passed since it was stored.
C37_HeadHandledAsGet ==
  [][HeadThenGet =>
       LET v == Validated[probe.first]
       IN /\ v.ok
          /\ v = Validated[probe.second]
          /\ (cacheStats.hits + cacheStats.misses = 0 /\ cacheStats' # cacheStats)
               => /\ cacheStats' = [hits |-> 0, misses |-> 1]
                  /\ treq' = SetToBag({[pc |-> "fetch", cacheKey |-> v.cacheKey,
                                        normalizedFormat |-> v.normalizedFormat]})
          /\ (cacheStats = [hits |-> 0, misses |-> 1] /\ response'.xCache = "MISS")
               => /\ response'.status = 200
                  /\ response'.cacheKey = v.cacheKey
                  /\ response'.contentType = ContentTypeOf(v.normalizedFormat)
                  /\ v.cacheKey \in missKeys'
                  /\ response'.body.length <= CACHE_MAX_SIZE_BYTES
                       => /\ v.cacheKey \in KeysOf(thumbnailCache')
                          /\ ValueAt(thumbnailCache', v.cacheKey).buffer = response'.body
          /\ (FirstSucceeded /\ FreshlyResident(v.cacheKey) /\ SecondLooksUp)
               => /\ response'.status = 200 /\ response'.xCache = "HIT"
                  /\ response'.body = ValueAt(thumbnailCache, v.cacheKey).buffer
                  /\ cacheStats' = [hits |-> 1, misses |-> 1]]_vars

\* A HEAD was answered MISS and the GET for its tuple, with every parameter
\* written out, is answered HIT: one miss and one hit are counted.
C37_Witness ==
  /\ probe.pc = "pair"
  /\ probe.first.method = "HEAD"
  /\ probe.second.method = "GET"
  /\ probe.second.format = Str(<<"G", "I", "F">>)
  /\ probe.second.quality = Str(<<"8", "0">>)
  /\ cacheStats = [hits |-> 1, misses |-> 1]
  /\ response.xCache = "HIT"
  /\ response.cacheKey = Validated[probe.first].cacheKey
  /\ treq = EmptyBag

(***************************************************************************)
(* Properties of the responses, checked under SpecAnswer.                  *)
(***************************************************************************)
\* The status codes the handlers and the framework answer with.
AnswerStatuses == {200, 400, 405, 500}

\* C38: a request is answered once. /thumbnail: a handler that is suspended
\* at an await has sent nothing; at most one handler ends in a step; a
\* handler that ends after an await has sent one response in that step and is
\* not in flight any more; a request that ends without an await (rejected,
\* thrown out of, or served from the cache) is answered in the step it
\* arrives in; no other step sends a response. /create-filtered-gif: the
\* handler has sent a response exactly when it is at its return; once it has,
\* it does nothing but return; it returns only with a response sent.
C38_AnsweredExactlyOnce ==
  [][/\ \A req \in BagToSet(treq) : req.pc \in {"fetch", "resize"}
     /\ BagCardinality(treq') >= BagCardinality(treq) - 1
     /\ BagCardinality(treq') < BagCardinality(treq)
          => response'.status \in {200, 500}
     /\ BagCardinality(treq') > BagCardinality(treq)
          => /\ response' = NoResp
             /\ BagCardinality(treq') = BagCardinality(treq) + 1
     /\ \A q \in AnswerQueries :
          (treq' = treq /\ ThumbReceive(q)) => response'.status \in AnswerStatuses
     /\ (response' # NoResp /\ BagCardinality(treq') = BagCardinality(treq))
          => \E q \in AnswerQueries : treq' = treq /\ ThumbReceive(q)
     /\ greq.resp.status # 0 <=> greq.pc = "done"
     /\ greq.resp.status # 0 => greq.resp.status \in AnswerStatuses
     /\ greq.resp.status # 0 => greq' = IdleGif
     /\ (greq.pc # "idle" /\ greq'.pc = "idle") => greq.resp.status \in AnswerStatuses]_vars

\* The GIF encoder threw after all frames were processed: the catch block
\* answered 500, once, and the handler is at its return.
C38_Witness ==
  /\ probe.pc = "endpoint"
  /\ greq.pc = "done"
  /\ greq.thrownAt = "encode"
  /\ greq.resp.status = 500
  /\ Len(greq.processedFrames) = Len(greq.tempFiles)

====
